---- MODULE Spec2Model ----
(***************************************************************************)
(* A model of the liquidation bot of mango-client-python:                  *)
(*   - LiquidationProcessor (update_margin_accounts, update_prices,        *)
(*     _liquidate_all) driven by the two rx subscriptions of its __main__; *)
(*   - Retrier.run.                                                        *)
(* Amounts are integers (a quote unit is 0.005 USDT, so that the default   *)
(* worthwhile_threshold of 0.01 is 2); collateral ratios are fractions     *)
(* <<numerator, denominator>> compared by cross-multiplication.            *)
(***************************************************************************)
EXTENDS Integers, Sequences, FiniteSets, TLC

(* ------------------------------ bounds -------------------------------- *)

\* Largest number of margin accounts in one snapshot.
MaxAccounts == 2

\* Largest `retries` a Retrier is built with (the repository uses 3 and 5).
MaxRetries == 4

\* Largest max_wait_in_seconds wait_for_confirmation is called with.
MaxWait == 5

\* Largest number of resting orders a margin account has on one market.
MaxOrders == 6

\* Largest balance and largest target balance of a traded token in the wallet.
MaxBalance == 3

\* The longest string handed to the target balance parser.
MaxChars == 5

\* The most open-orders accounts the wallet has on a market.
MaxOpenOrders == 2

\* The longest list handed to a find_by_name or find_by_mint helper.
MaxValues == 3

(* -------------------------- program constants -------------------------- *)

NUM_TOKENS == 3

NUM_MARKETS == NUM_TOKENS - 1

\* LiquidationProcessor.__init__ default 0.01, in quote units of 0.005.
worthwhile_threshold == 2

\* retry_context(market.place_order, 5)
place_order_retries == 5

\* An optional value is a list of at most one element: None is the empty one.
None == << >>

Some(x) == << x >>

The(optional) == optional[1]

(* ----------------------------- data model ------------------------------ *)

\* The group Group.load returns: maintenance ratio 1.10, and the indexes that
\* scale native deposits and borrows (a borrow of the quote token counts double).
TheGroup ==
    [ maint_coll_ratio |-> <<11, 10>>,
      index_deposit    |-> <<1, 1, 1>>,
      index_borrow     |-> <<1, 1, 2>> ]

\* Price vectors a prices tick can deliver; the quote price is always 1.
PriceVectors == { <<1, 1, 1>>, <<2, 1, 1>> }

NoOpenOrders == <<None, None>>

Contents(deposits, borrows, open_orders_accounts) ==
    [ deposits |-> deposits, borrows |-> borrows,
      open_orders_accounts |-> open_orders_accounts ]

\* On-chain contents of a margin account (deposits, borrows and per-market
\* open-orders accounts), named by what they are worth at the prices
\* <<1, 1, 1>> with the maintenance ratio 1.10.
\* Net 5, and net 10 when the first price is 2.
Worth5 == Contents(<<5, 0, 100>>, <<0, 0, 50>>, NoOpenOrders)

\* Net 8.
Worth8 == Contents(<<0, 0, 108>>, <<0, 0, 50>>, NoOpenOrders)

\* Net 8 again, part of it unsettled in an open-orders account.
Worth8Unsettled ==
    Contents(<<0, 0, 100>>, <<0, 0, 50>>,
             <<None, Some([base_token_total |-> 2, quote_token_total |-> 6])>>)

\* Above water with a net of exactly the worthwhile threshold.
AtThreshold ==
    Contents(<<0, 0, 100>>, <<0, 0, 50>>,
             <<Some([base_token_total |-> 0, quote_token_total |-> 2]), None>>)

\* Above water with a net of 1, below the threshold.
Residual1 == Contents(<<0, 0, 101>>, <<0, 0, 50>>, NoOpenOrders)

\* Every borrow repaid, assets of 1 left: a net of 1 and no liabilities.
Repaid1 == Contents(<<0, 0, 1>>, <<0, 0, 0>>, NoOpenOrders)

\* Collateral ratio 4.0.
Healthy == Contents(<<0, 0, 400>>, <<0, 0, 50>>, NoOpenOrders)

\* Collateral ratio 0.4.
UnderWater == Contents(<<0, 0, 40>>, <<0, 0, 50>>, NoOpenOrders)

\* Assets of 50 and no liabilities.
NoLiabilities == Contents(<<0, 0, 50>>, <<0, 0, 0>>, NoOpenOrders)

MarginAccount(address, contents) ==
    [ address              |-> address,
      deposits             |-> contents.deposits,
      borrows              |-> contents.borrows,
      open_orders_accounts |-> contents.open_orders_accounts ]

\* What MarginAccount.load can find on chain after an attempt: the account
\* still worth 8, or drained to the threshold, or drained below it with
\* borrows left or with every borrow repaid.
ReloadedAt(address) ==
    { MarginAccount(address, c) : c \in { Worth8, AtThreshold, Residual1, Repaid1 } }

\* The account populations of the group; the address of an account is its
\* place in the list.
Populations ==
    { << Worth5, Worth8, Worth8Unsettled >>,
      << UnderWater, Worth8, Healthy >>,
      << Healthy, Worth5, NoLiabilities >>,
      << NoLiabilities, Worth8Unsettled, Residual1 >>,
      << AtThreshold, Worth8, UnderWater >> }

Min(a, b) == IF a < b THEN a ELSE b

\* The lists load_all_for_group_with_open_orders can return: the first
\* accounts of a population, at most MaxAccounts of them.
Snapshots ==
    { [ address \in 1..n |-> MarginAccount(address, population[address]) ] :
        population \in Populations, n \in 0..Min(MaxAccounts, 3) }

BalanceSheet(liabilities, settled_assets, unsettled_assets) ==
    [ liabilities      |-> liabilities,
      settled_assets   |-> settled_assets,
      unsettled_assets |-> unsettled_assets ]

assets(sheet) == sheet.settled_assets + sheet.unsettled_assets

value(sheet) == assets(sheet) - sheet.liabilities

\* The ratio without the test for liabilities of zero.
collateral_ratio_unguarded(sheet) == <<assets(sheet), sheet.liabilities>>

\* assets / liabilities as a fraction, 0 when there are no liabilities.
collateral_ratio(sheet) ==
    IF sheet.liabilities = 0 THEN <<0, 1>> ELSE <<assets(sheet), sheet.liabilities>>

\* Comparison of fractions with positive denominators.
FractionLeq(a, b) == a[1] * b[2] <= b[1] * a[2]

FractionGt(a, b) == a[1] * b[2] > b[1] * a[2]

RECURSIVE SumFrom(_, _, _)
SumFrom(f, i, n) == IF i > n THEN 0 ELSE f[i] + SumFrom(f, i + 1, n)

base_token_total(open_orders_account) ==
    IF open_orders_account = None THEN 0 ELSE The(open_orders_account).base_token_total

quote_token_total(open_orders_account) ==
    IF open_orders_account = None THEN 0 ELSE The(open_orders_account).quote_token_total

\* The sheets with the native deposits and borrows, not scaled by the indexes.
get_intrinsic_balance_sheets_unscaled(margin_account, group) ==
    [ index \in 1..NUM_TOKENS |->
        BalanceSheet(
            margin_account.borrows[index],
            margin_account.deposits[index],
            IF index < NUM_TOKENS
            THEN base_token_total(margin_account.open_orders_accounts[index])
            ELSE SumFrom([m \in 1..NUM_MARKETS |->
                            quote_token_total(margin_account.open_orders_accounts[m])],
                         1, NUM_MARKETS)) ]

get_intrinsic_balance_sheets(margin_account, group) ==
    [ index \in 1..NUM_TOKENS |->
        BalanceSheet(
            group.index_borrow[index] * margin_account.borrows[index],
            group.index_deposit[index] * margin_account.deposits[index],
            IF index < NUM_TOKENS
            THEN base_token_total(margin_account.open_orders_accounts[index])
            ELSE SumFrom([m \in 1..NUM_MARKETS |->
                            quote_token_total(margin_account.open_orders_accounts[m])],
                         1, NUM_MARKETS)) ]

\* Amounts and prices are integers, so Token.round changes nothing here.
get_priced_balance_sheets(margin_account, group, token_prices) ==
    LET sheets == get_intrinsic_balance_sheets(margin_account, group)
    IN  [ index \in 1..NUM_TOKENS |->
            BalanceSheet(sheets[index].liabilities * token_prices[index],
                         sheets[index].settled_assets * token_prices[index],
                         sheets[index].unsettled_assets * token_prices[index]) ]

get_balance_sheet_totals(margin_account, group, token_prices) ==
    LET priced == get_priced_balance_sheets(margin_account, group, token_prices)
    IN  BalanceSheet(
            SumFrom([i \in 1..NUM_TOKENS |-> priced[i].liabilities], 1, NUM_TOKENS),
            SumFrom([i \in 1..NUM_TOKENS |-> priced[i].settled_assets], 1, NUM_TOKENS),
            SumFrom([i \in 1..NUM_TOKENS |-> priced[i].unsettled_assets], 1, NUM_TOKENS))

\* The intrinsic balances of the metadata are not read by the processor and
\* are left out of the record.
MarginAccountMetadata(margin_account, balance_sheet) ==
    [ margin_account |-> margin_account, balance_sheet |-> balance_sheet ]

Metadata(margin_account, group, token_prices) ==
    MarginAccountMetadata(margin_account,
                          get_balance_sheet_totals(margin_account, group, token_prices))

\* mam.assets - mam.liabilities, the sort key and the worthwhile measure.
Net(mam) == assets(mam.balance_sheet) - mam.balance_sheet.liabilities

(* ------------------------- LiquidationProcessor ------------------------ *)

\* The liquidatable filter letting every account through.
is_liquidatable_always(mam, group) == TRUE

is_liquidatable(mam, group) ==
    FractionLeq(collateral_ratio(mam.balance_sheet), group.maint_coll_ratio)

is_above_water(mam) == FractionGt(collateral_ratio(mam.balance_sheet), <<1, 1>>)

is_worthwhile(mam) == Net(mam) > worthwhile_threshold

liquidatable(updated_list, group) ==
    SelectSeq(updated_list, LAMBDA mam : is_liquidatable(mam, group))

above_water(liquidatable_list) == SelectSeq(liquidatable_list, is_above_water)

\* A filter that builds its list from the back.
worthwhile_prepending(above_water_list) ==
    LET kept == SelectSeq(above_water_list, is_worthwhile)
    IN  [ k \in 1..Len(kept) |-> kept[Len(kept) + 1 - k] ]

worthwhile(above_water_list) == SelectSeq(above_water_list, is_worthwhile)

RECURSIVE InsertDescending(_, _)
\* x placed after every element whose key is at least its own: elements with
\* equal keys keep the order in which they are inserted.
InsertDescending(sorted, x) ==
    IF sorted = << >> THEN << x >>
    ELSE IF Net(Head(sorted)) >= Net(x)
         THEN << Head(sorted) >> \o InsertDescending(Tail(sorted), x)
         ELSE << x >> \o sorted

\* The list left in the order it has, unsorted.
highest_first_unsorted(list) == list

\* A sort that puts first, of the entries with the highest key, the last one.
highest_first_latest_of_equals(list) ==
    IF list = << >> THEN << >>
    ELSE LET top == CHOOSE i \in 1..Len(list) :
                       \A j \in 1..Len(list) :
                          \/ Net(list[i]) > Net(list[j])
                          \/ Net(list[i]) = Net(list[j]) /\ i >= j
         IN  << list[top] >> \o [ k \in 1..(Len(list) - 1) |->
                                    list[IF k < top THEN k ELSE k + 1] ]

RECURSIVE highest_first(_)
\* sorted(to_process, key = assets - liabilities, reverse = True): a stable sort.
highest_first(list) ==
    IF list = << >> THEN << >>
    ELSE InsertDescending(highest_first(SubSeq(list, 1, Len(list) - 1)), list[Len(list)])

RECURSIVE Remove(_, _)
\* list.remove(x): the list without its first element equal to x.
Remove(list, x) ==
    IF list = << >> THEN << >>
    ELSE IF Head(list) = x THEN Tail(list)
         ELSE << Head(list) >> \o Remove(Tail(list), x)

Contains(list, x) == \E i \in 1..Len(list) : list[i] = x

\* The branch of _liquidate_all that puts the reloaded account back on the list.
put_back_on_list(updated_mam) == ~ (Net(updated_mam) > worthwhile_threshold)

\* A try block that ends before the reload of the account.
caught_by_try_before_reload(stage) == stage \in { "liquidate", "balance" }

\* Whether the try block of _liquidate_all covers the call that raised.
caught_by_try(stage) == stage \in { "liquidate", "balance", "reload" }

(* -------------------------------- state ------------------------------- *)

VARIABLES
    \* LiquidationProcessor
    ripe_accounts,      \* self.ripe_accounts: None or Some(list of margin accounts)
    pc,                 \* where the update_prices call in flight stands
    prices,             \* the argument of the update_prices call in flight
    group,              \* the group it loaded: None or Some(group)
    iter_list,          \* the list object its for loop iterates
    updated,            \* its list `updated`
    to_process,         \* the list _liquidate_all works on
    \* What the collaborators of the processor have seen
    attempted,          \* addresses passed to liquidate in this tick
    last_iteration,     \* the calls of the latest _liquidate_all iteration
    escaped,            \* an exception left _liquidate_all
    tick_log,           \* the latest progress line update_prices logged
    replaced_before_loop, \* update_margin_accounts ran between this tick's None
                        \* check and the start of its for loop
    \* The subscriptions of __main__
    price_subscription,
    margin_account_subscription,
    logged_errors,      \* subscriptions whose error log_subscription_error logged
    \* Retrier
    retries,            \* self.retries
    counter,            \* the loop variable of run
    captured_exception, \* None or Some(exception)
    calls,              \* the outcomes of the calls of self.func, in order
    run_result,         \* None while run is running, then what it returned or raised
    \* Context.wait_for_confirmation
    transaction_id,     \* its argument transaction_id
    max_wait_in_seconds, \* its argument max_wait_in_seconds
    wait,               \* its loop variable: None as long as it is unbound
    poll_log,           \* what get_confirmed_transaction answered, poll by poll
    confirmation_result, \* None while it is running, then how it ended
    \* One liquidate call on an AccountLiquidator
    liquidator,         \* the class of the liquidator that builds and sends
    reporting,          \* whether a ReportingAccountLiquidator wraps it
    margin_orders,      \* per market: None without an open-orders account, else
                        \* Some(number of orders load_orders_for_owner finds)
    liquidate_instruction, \* what LiquidateInstructionBuilder gives: None or Some
    liquidator_pc,      \* where the call stands
    sent,               \* the transactions handed to send_transaction, in order
    journal,            \* what the reporting liquidator has done so far, in order
    published,          \* the events handed to liquidations_publisher.publish
    subscriber_outcome, \* how the subscribers' on_next ended for the last event
    publish_result,     \* how the last publish call ended
    inner_result,       \* how the call of the inner liquidator ended
    wait_result,        \* None, then how wait_for_confirmation ended
    liquidate_result,   \* None while the call is running, then how it ended
    \* One balance call on a LiveWalletBalancer
    action_threshold,   \* self.action_threshold, a fraction
    balancer_prices,    \* the argument prices
    current_balances,   \* what _fetch_balances returns
    resolved_targets,   \* the target balances, resolved
    balance_changes,    \* the required changes
    filtered_changes,   \* the changes FilterSmallChanges allows
    sorted_changes,     \* the filtered changes, sorted for trades
    trades,             \* the calls of trade_executor.sell and buy, in order
    balancer_pc,        \* where the call stands
    balance_result,     \* None while the call is running, then how it ended
    target_balances,    \* self.target_balances: the targets, not yet resolved
    \* One parse call on a TargetBalanceParser
    parser_tokens,      \* self.tokens, each token by its name
    to_parse,           \* the argument to_parse
    parse_result,       \* None before the call, then what it returned or raised
    \* One buy or sell call on a SerumImmediateTradeExecutor
    trade_call,         \* the call: its side, symbol and quantity
    executor_pc,        \* where the call stands
    order_arguments,    \* None, or Some of the arguments run hands market.place_order
    place_order_calls,  \* the calls of market.place_order: arguments and outcome
    open_orders,        \* the open-orders accounts settle loads
    settle_calls,       \* the calls of market.settle_funds, in order
    settlement_transaction_ids, \* None, or Some list settle returned
    executor_log,       \* the steps of _execute taken so far
    fill_result,        \* None, then how _wait_for_order_fill ended
    execute_result,     \* None while the call is running, then how it ended
    \* The balance sheets and filters of update_prices, on their own
    sheet_group,        \* the group
    sheet_prices,       \* the prices
    sheet_accounts,     \* the margin accounts
    intrinsic_balance_sheets, \* per account, what get_intrinsic_balance_sheets returns
    sheet_properties,   \* per account, the properties read off each sheet
    funnel,             \* the lists updated, liquidatable, above_water and worthwhile
    sheets_pc,          \* how far the evaluation has come
    \* One call of TokenValue.changes
    changes_before,     \* the argument before
    changes_after,      \* the argument after
    changes_result,     \* None before the call, then what it returned or raised
    \* One call of a find_by_name or find_by_mint helper
    lookup_helper,      \* the class and the helper called
    lookup_values,      \* the argument values
    lookup_key,         \* the name or the mint looked for
    lookup_result,      \* None before the call, then what it returned or raised
    \* One call of the parse method of an account class
    record_class,       \* the class whose parse is called
    undefined_sizeof,   \* sizeof() of its layout, if the module Layout does not define it
    account_data,       \* account_info.data: its length, and whether its bytes decode
    record_result,      \* None before the call, then what it returned or raised
    \* One field of a layout, parsed and built again
    field_adapter,      \* the adapter of the field
    field_bytes,        \* the bytes parsed
    field_parsed,       \* None, then what parse returned or raised
    field_built,        \* None, then what build returned or raised for the parsed value
    \* The chain, as far as the processor has read it back
    drained             \* the addresses whose latest MarginAccount.load in
                        \* _liquidate_all found an account that is not worthwhile

processor_vars ==
    << ripe_accounts, pc, prices, group, iter_list, updated, to_process, attempted,
       last_iteration, escaped, tick_log, replaced_before_loop >>

subscription_vars == << price_subscription, margin_account_subscription, logged_errors >>

retrier_vars == << retries, counter, captured_exception, calls, run_result >>

confirmation_vars ==
    << transaction_id, max_wait_in_seconds, wait, poll_log, confirmation_result >>

liquidator_vars ==
    << liquidator, reporting, margin_orders, liquidate_instruction, liquidator_pc, sent,
       journal, published, subscriber_outcome, publish_result, inner_result, wait_result,
       liquidate_result >>

balancer_vars ==
    << action_threshold, balancer_prices, current_balances, resolved_targets,
       balance_changes, filtered_changes, sorted_changes, trades, balancer_pc,
       balance_result >>

targets_vars == << target_balances >>

\* The state of the components modelled on their own.
parser_vars == << parser_tokens, to_parse, parse_result >>

executor_vars ==
    << trade_call, executor_pc, order_arguments, place_order_calls, open_orders,
       settle_calls, settlement_transaction_ids, executor_log, fill_result,
       execute_result >>

sheets_vars ==
    << sheet_group, sheet_prices, sheet_accounts, intrinsic_balance_sheets,
       sheet_properties, funnel, sheets_pc >>

changes_vars == << changes_before, changes_after, changes_result >>

lookup_vars == << lookup_helper, lookup_values, lookup_key, lookup_result >>

record_vars == << record_class, undefined_sizeof, account_data, record_result >>

field_vars == << field_adapter, field_bytes, field_parsed, field_built >>

\* The state of the lookups and of the layouts.
chain_vars == << drained >>

data_vars == << lookup_vars, record_vars, field_vars, chain_vars >>

other_vars ==
    << targets_vars, parser_vars, executor_vars, sheets_vars, changes_vars, data_vars >>

\* The state of the helpers the processor does not hold.
helper_vars ==
    << retrier_vars, confirmation_vars, liquidator_vars, balancer_vars, other_vars >>

vars == << processor_vars, subscription_vars, helper_vars >>

\* A finally block that leaves the list as it is.
finally_leave(list, highest) == list

\* The finally block: the head is removed when it is (still) in the list.
finally_remove(list, highest) ==
    IF Contains(list, highest) THEN Remove(list, highest) ELSE list

\* A loop that reads self.ripe_accounts again on every pass.
IteratedListReadAgain == The(ripe_accounts)

\* The list the for loop of update_prices takes its accounts from.
IteratedList == iter_list

ProcessorInit ==
    /\ ripe_accounts = None
    /\ pc = "idle"
    /\ prices = None
    /\ group = None
    /\ iter_list = << >>
    /\ updated = << >>
    /\ to_process = << >>
    /\ attempted = {}
    /\ last_iteration = None
    /\ escaped = FALSE
    /\ tick_log = "nothing"
    /\ replaced_before_loop = FALSE

\* An update that adds the given accounts to the snapshot it holds.
update_margin_accounts_extending(ripe_margin_accounts) ==
    /\ ripe_accounts' =
          IF ripe_accounts = None
          THEN Some(ripe_margin_accounts)
          ELSE Some(The(ripe_accounts) \o ripe_margin_accounts)
    /\ replaced_before_loop' = (replaced_before_loop \/ pc = "load_group")
    /\ UNCHANGED << pc, prices, group, iter_list, updated, to_process, attempted,
                    last_iteration, escaped, tick_log >>

update_margin_accounts(ripe_margin_accounts) ==
    /\ ripe_accounts' = Some(ripe_margin_accounts)
    /\ replaced_before_loop' = (replaced_before_loop \/ pc = "load_group")
    /\ UNCHANGED << pc, prices, group, iter_list, updated, to_process, attempted,
                    last_iteration, escaped, tick_log >>

\* update_prices loading the group before it looks at ripe_accounts.
update_prices_loading_first(token_prices) ==
    /\ pc = "idle"
    /\ group' = Some(TheGroup)
    /\ \/ /\ ripe_accounts = None
          /\ tick_log' = "skipping"
          /\ UNCHANGED << pc, prices >>
       \/ /\ ripe_accounts # None
          /\ tick_log' = "running"
          /\ pc' = "load_group"
          /\ prices' = token_prices
    /\ attempted' = {}
    /\ last_iteration' = None
    /\ escaped' = FALSE
    /\ replaced_before_loop' = FALSE
    /\ UNCHANGED << ripe_accounts, iter_list, updated, to_process >>

\* update_prices up to its None check: it returns at once, or goes on to load
\* the group.
update_prices(token_prices) ==
    /\ pc = "idle"
    /\ \/ /\ ripe_accounts = None
          /\ tick_log' = "skipping"
          /\ UNCHANGED << pc, prices >>
       \/ /\ ripe_accounts # None
          /\ tick_log' = "running"
          /\ pc' = "load_group"
          /\ prices' = token_prices
    /\ attempted' = {}
    /\ last_iteration' = None
    /\ escaped' = FALSE
    /\ replaced_before_loop' = FALSE
    /\ UNCHANGED << ripe_accounts, group, iter_list, updated, to_process >>

\* Group.load, and the for loop taking the list self.ripe_accounts refers to
\* at that moment.
LoadGroup ==
    /\ pc = "load_group"
    /\ group' = Some(TheGroup)
    /\ iter_list' = The(ripe_accounts)
    /\ updated' = << >>
    /\ pc' = "evaluate"
    /\ UNCHANGED << ripe_accounts, prices, to_process, attempted, last_iteration,
                    escaped, tick_log, replaced_before_loop >>

\* One pass of the for loop: the metadata of the next account of the list.
EvaluateNext ==
    /\ pc = "evaluate"
    /\ Len(updated) < Len(IteratedList)
    /\ updated' = Append(updated,
                         Metadata(IteratedList[Len(updated) + 1], The(group), prices))
    /\ UNCHANGED << ripe_accounts, pc, prices, group, iter_list, to_process, attempted,
                    last_iteration, escaped, tick_log, replaced_before_loop >>

\* A filter stage that leaves out the accounts a reload found drained.
FilterAccountsWithoutDrained ==
    /\ pc = "evaluate"
    /\ Len(updated) >= Len(iter_list)
    /\ to_process' =
          SelectSeq(worthwhile(above_water(liquidatable(updated, The(group)))),
                    LAMBDA mam: mam.margin_account.address \notin drained)
    /\ pc' = "liquidate_all"
    /\ UNCHANGED << ripe_accounts, prices, group, iter_list, updated, attempted,
                    last_iteration, escaped, tick_log, replaced_before_loop >>

\* The three filters, and the call of _liquidate_all on the worthwhile list.
FilterAccounts ==
    /\ pc = "evaluate"
    /\ Len(updated) >= Len(IteratedList)
    /\ to_process' = worthwhile(above_water(liquidatable(updated, The(group))))
    /\ pc' = "liquidate_all"
    /\ UNCHANGED << ripe_accounts, prices, group, iter_list, updated, attempted,
                    last_iteration, escaped, tick_log, replaced_before_loop >>

Iteration(highest, liquidate_outcome, balance_outcome, reload_outcome) ==
    [ highest   |-> highest,
      liquidate |-> liquidate_outcome,
      balance   |-> balance_outcome,
      reload    |-> reload_outcome ]

\* What an iteration of _liquidate_all leaves behind when the call `stage`
\* raised: the except clause when the try block covers it, and the finally
\* block in every case.
IterationRaised(highest, stage) ==
    /\ to_process' = finally_remove(to_process, highest)
    /\ escaped' = ~ caught_by_try(stage)
    /\ pc' = IF caught_by_try(stage) THEN pc ELSE "idle"

\* One iteration of the while loop of _liquidate_all.
LiquidateIteration ==
    /\ pc = "liquidate_all"
    /\ Len(to_process) > 0
    /\ LET highest == Head(highest_first(to_process))
           address == highest.margin_account.address
       IN  /\ attempted' = attempted \cup { address }
           /\ \/ \* liquidate raises
                 /\ IterationRaised(highest, "liquidate")
                 /\ last_iteration' = Some(Iteration(highest, "raised", "not called", None))
              \/ \* liquidate returns, the wallet balancer raises
                 \E result \in { "signature", "nothing to do" } :
                    /\ IterationRaised(highest, "balance")
                    /\ last_iteration' = Some(Iteration(highest, result, "raised", None))
              \/ \* liquidate and the balancer return, MarginAccount.load raises
                 \E result \in { "signature", "nothing to do" } :
                    /\ IterationRaised(highest, "reload")
                    /\ last_iteration' = Some(Iteration(highest, result, "returned", None))
              \/ \* no call raises
                 \E result \in { "signature", "nothing to do" },
                    updated_margin_account \in ReloadedAt(address) :
                    LET updated_mam == Metadata(updated_margin_account, The(group), prices)
                    IN  /\ to_process' =
                              finally_remove(
                                  IF put_back_on_list(updated_mam)
                                  THEN Append(to_process, updated_mam)
                                  ELSE to_process,
                                  highest)
                        /\ last_iteration' =
                              Some(Iteration(highest, result, "returned", Some(updated_mam)))
                            /\ UNCHANGED << escaped, pc >>
    /\ UNCHANGED << ripe_accounts, prices, group, iter_list, updated, tick_log,
                    replaced_before_loop >>

\* The while loop ends and update_prices returns; its locals are gone.
FinishTick ==
    /\ pc = "liquidate_all"
    /\ to_process = << >>
    /\ pc' = "idle"
    /\ prices' = None
    /\ group' = None
    /\ iter_list' = << >>
    /\ updated' = << >>
    /\ attempted' = {}
    /\ last_iteration' = None
    /\ replaced_before_loop' = FALSE
    /\ tick_log' = "complete"
    /\ UNCHANGED << ripe_accounts, to_process, escaped >>

(* ------------------------ subscriptions of __main__ -------------------- *)

SubscriptionInit ==
    /\ price_subscription = "subscribed"
    /\ margin_account_subscription = "subscribed"
    /\ logged_errors = {}

\* The state of a subscription after its map stage raised: the pipelines hold
\* no retry or catch stage, so the error reaches on_error and ends the stream.
after_error(subscription) == "terminated"

\* A tick of the margin account interval: fetch_margin_accounts raises, or its
\* list is handed to update_margin_accounts.
MarginAccountsTick ==
    /\ margin_account_subscription = "subscribed"
    /\ \/ /\ logged_errors' = logged_errors \cup { "margin accounts" }
          /\ margin_account_subscription' = after_error(margin_account_subscription)
          /\ UNCHANGED processor_vars
       \/ /\ \E ripe_margin_accounts \in Snapshots :
                update_margin_accounts(ripe_margin_accounts)
          /\ UNCHANGED << margin_account_subscription, logged_errors >>
    /\ UNCHANGED price_subscription

\* A tick of the price interval: fetch_prices raises, or its prices are handed
\* to update_prices. The observer hands over no value while the handler runs.
PricesTick ==
    /\ price_subscription = "subscribed"
    /\ \/ /\ logged_errors' = logged_errors \cup { "prices" }
          /\ price_subscription' = after_error(price_subscription)
          /\ UNCHANGED processor_vars
       \/ /\ \E token_prices \in PriceVectors : update_prices(token_prices)
          /\ UNCHANGED << price_subscription, logged_errors >>
    /\ UNCHANGED margin_account_subscription

(* -------------------------------- Retrier ------------------------------ *)

ReturnValues == { "v1", "v2" }

Exceptions == { "e1", "e2" }

Returned(v) == [ kind |-> "returned", value |-> v ]

Raised(e) == [ kind |-> "raised", value |-> e ]

\* Retrier(func, retries) built, run not yet started.
RetrierInit ==
    /\ retries \in 1..MaxRetries
    /\ counter = 0
    /\ captured_exception = None
    /\ calls = << >>
    /\ run_result = None

\* A pass that does not return the value of self.func and goes on looping.
RetrierAttemptWithoutReturn ==
    /\ run_result = None
    /\ counter < retries
    /\ \/ \E v \in ReturnValues :
             /\ calls' = Append(calls, Returned(v))
             /\ counter' = counter + 1
             /\ UNCHANGED << run_result, captured_exception >>
       \/ \E e \in Exceptions :
             /\ calls' = Append(calls, Raised(e))
             /\ captured_exception' = Some(e)
             /\ counter' = counter + 1
             /\ UNCHANGED run_result
    /\ UNCHANGED retries

\* A pass that captures only the first exception self.func raises.
RetrierAttemptKeepingFirst ==
    /\ run_result = None
    /\ counter < retries
    /\ \/ \E v \in ReturnValues :
             /\ calls' = Append(calls, Returned(v))
             /\ run_result' = Some(Returned(v))
             /\ UNCHANGED << counter, captured_exception >>
       \/ \E e \in Exceptions :
             /\ calls' = Append(calls, Raised(e))
             /\ captured_exception' =
                    IF captured_exception = None THEN Some(e) ELSE captured_exception
             /\ counter' = counter + 1
             /\ UNCHANGED run_result
    /\ UNCHANGED retries

\* One pass of the for loop of run: self.func returns, and run returns its
\* value, or it raises, and the exception is captured.
RetrierAttempt ==
    /\ run_result = None
    /\ counter < retries
    /\ \/ \E v \in ReturnValues :
             /\ calls' = Append(calls, Returned(v))
             /\ run_result' = Some(Returned(v))
             /\ UNCHANGED << counter, captured_exception >>
       \/ \E e \in Exceptions :
             /\ calls' = Append(calls, Raised(e))
             /\ captured_exception' = Some(e)
             /\ counter' = counter + 1
             /\ UNCHANGED run_result
    /\ UNCHANGED retries

\* The range is exhausted: raise captured_exception.
RetrierExhausted ==
    /\ run_result = None
    /\ counter >= retries
    /\ run_result' = Some(Raised(IF captured_exception = None
                                 THEN "TypeError"
                                 ELSE The(captured_exception)))
    /\ UNCHANGED << retries, counter, captured_exception, calls >>

\* No Retrier in play.
RetrierParked ==
    /\ retries = 0
    /\ counter = 0
    /\ captured_exception = None
    /\ calls = << >>
    /\ run_result = None

(* ----------------------- Context.wait_for_confirmation ----------------- *)

TransactionIds == { "signature 1", "signature 2" }

\* wait_for_confirmation(transaction_id, max_wait_in_seconds) called, its loop
\* not yet entered.
ConfirmationInit ==
    /\ transaction_id \in TransactionIds
    /\ max_wait_in_seconds \in 0..MaxWait
    /\ wait = None
    /\ poll_log = << >>
    /\ confirmation_result = None

\* The value range(0, max_wait_in_seconds) gives next.
next_wait == IF wait = None THEN 0 ELSE The(wait) + 1

\* What the log line after the loop does when it formats `wait`: the name is
\* bound by the first pass of the loop only.
timed_out ==
    IF wait = None THEN Raised("UnboundLocalError") ELSE Returned("timed out")

\* One pass of the loop: sleep, ask the chain, return when it has the
\* transaction. The RPC call can raise.
ConfirmationPoll ==
    /\ confirmation_result = None
    /\ next_wait < max_wait_in_seconds
    /\ wait' = Some(next_wait)
    /\ \E answer \in { "not confirmed", "confirmed", "raised" } :
          /\ poll_log' = Append(poll_log, answer)
          /\ confirmation_result' =
                CASE answer = "confirmed" -> Some(Returned("confirmed"))
                  [] answer = "raised" -> Some(Raised("rpc error"))
                  [] OTHER -> None
    /\ UNCHANGED << transaction_id, max_wait_in_seconds >>

\* The range is exhausted: the time-out is logged and the function ends.
ConfirmationTimeout ==
    /\ confirmation_result = None
    /\ next_wait >= max_wait_in_seconds
    /\ confirmation_result' = Some(timed_out)
    /\ UNCHANGED << transaction_id, max_wait_in_seconds, wait, poll_log >>

\* No wait_for_confirmation call in play.
ConfirmationParked ==
    /\ transaction_id = None
    /\ max_wait_in_seconds = 0
    /\ wait = None
    /\ poll_log = << >>
    /\ confirmation_result = None

(* ---------------------------- AccountLiquidator ------------------------ *)

\* The most orders one ForceCancelOrders instruction cancels.
LIMIT_PER_INSTRUCTION == 5

Instruction(kind, market, limit) == [ kind |-> kind, market |-> market, limit |-> limit ]

RECURSIVE multiple_instructions_from_margin_account_and_market(_, _)
\* ForceCancelOrdersInstructionBuilder: ceil(order_count / LIMIT_PER_INSTRUCTION)
\* instructions for the market.
multiple_instructions_from_margin_account_and_market(market, order_count) ==
    IF order_count <= 0 THEN << >>
    ELSE << Instruction("ForceCancelOrders", market,
                        Min(order_count, LIMIT_PER_INSTRUCTION)) >>
         \o multiple_instructions_from_margin_account_and_market(
                market, order_count - LIMIT_PER_INSTRUCTION)

\* ActualAccountLiquidator.prepare_instructions: the liquidate instruction, if
\* the builder gives one.
actual_prepare_instructions(liquidate_instruction_or_none) ==
    IF liquidate_instruction_or_none # None
    THEN << The(liquidate_instruction_or_none) >>
    ELSE << >>

RECURSIVE force_cancel_orders_instructions(_, _)
\* The loop of ForceCancelOrdersAccountLiquidator.prepare_instructions over the
\* markets from `index` on.
force_cancel_orders_instructions(open_orders_accounts, index) ==
    IF index > NUM_MARKETS THEN << >>
    ELSE (IF open_orders_accounts[index] # None /\ The(open_orders_accounts[index]) > 0
          THEN multiple_instructions_from_margin_account_and_market(
                   index, The(open_orders_accounts[index]))
          ELSE << >>)
         \o force_cancel_orders_instructions(open_orders_accounts, index + 1)


\* The instruction list with the liquidate instruction put first.
all_instructions_liquidate_first(open_orders_accounts, liquidate_instruction_or_none) ==
    actual_prepare_instructions(liquidate_instruction_or_none)
        \o force_cancel_orders_instructions(open_orders_accounts, 1)

\* An instruction list that is empty when there is no liquidate instruction.
all_instructions_only_with_liquidate(open_orders_accounts, liquidate_instruction_or_none) ==
    IF liquidate_instruction_or_none = None
    THEN << >>
    ELSE force_cancel_orders_instructions(open_orders_accounts, 1)
             \o actual_prepare_instructions(liquidate_instruction_or_none)

\* ForceCancelOrdersAccountLiquidator.prepare_instructions: the force-cancel
\* instructions, then what the super class prepares.
all_instructions(open_orders_accounts, liquidate_instruction_or_none) ==
    force_cancel_orders_instructions(open_orders_accounts, 1)
        \o actual_prepare_instructions(liquidate_instruction_or_none)

LiquidatorClasses ==
    { "NullAccountLiquidator", "ActualAccountLiquidator",
      "ForceCancelOrdersAccountLiquidator" }

prepare_instructions(class, open_orders_accounts, liquidate_instruction_or_none) ==
    CASE class = "NullAccountLiquidator" -> << >>
      [] class = "ActualAccountLiquidator" ->
            actual_prepare_instructions(liquidate_instruction_or_none)
      [] class = "ForceCancelOrdersAccountLiquidator" ->
            all_instructions(open_orders_accounts, liquidate_instruction_or_none)

\* What send_transaction can answer: a result holding the signature, or an
\* error that is a plain string or an RPCError dictionary.
Responses ==
    { [ kind |-> "result", value |-> id ] : id \in TransactionIds }
        \cup { [ kind |-> "error", value |-> e ] : e \in { "str", "RPCError" } }

\* An unwrap that hands back whatever the response holds.
unwrap_ignoring_errors(response) ==
    Returned(IF response.kind = "result" THEN Some(response.value) ELSE None)

\* Context.unwrap_or_raise_exception: `response["error"] is str` compares the
\* value with the type and is never true, so that a string error is indexed
\* like a dictionary, which raises a TypeError.
unwrap_or_raise_exception(response) ==
    IF response.kind = "error"
    THEN (IF response.value = "RPCError" THEN Raised("Exception") ELSE Raised("TypeError"))
    ELSE Returned(Some(response.value))

\* A liquidate call made on a liquidator: its class, whether a reporting
\* liquidator wraps it, and what the chain holds for the margin account.
LiquidatorInit ==
    /\ liquidator \in LiquidatorClasses
    /\ reporting \in BOOLEAN
    /\ margin_orders \in
          [ 1..NUM_MARKETS -> { None } \cup { Some(n) : n \in 0..MaxOrders } ]
    /\ liquidate_instruction \in { None, Some(Instruction("Liquidate", 0, 0)) }
    /\ liquidator_pc = IF reporting THEN "balances before" ELSE "inner"
    /\ sent = << >>
    /\ journal = << >>
    /\ published = << >>
    /\ subscriber_outcome = None
    /\ publish_result = None
    /\ inner_result = None
    /\ wait_result = None
    /\ liquidate_result = None

\* The call ends by raising.
LiquidateRaises(exception) ==
    /\ liquidate_result' = Some(Raised(exception))
    /\ liquidator_pc' = "done"

\* ReportingAccountLiquidator.liquidate up to the inner call: the wallet
\* balances are fetched, which can raise.
ReportingBalancesBefore ==
    /\ liquidator_pc = "balances before"
    /\ \/ /\ journal' = Append(journal, "balances before")
          /\ liquidator_pc' = "inner"
          /\ UNCHANGED liquidate_result
       \/ /\ LiquidateRaises("rpc error")
          /\ UNCHANGED journal
    /\ UNCHANGED << liquidator, reporting, margin_orders, liquidate_instruction, sent,
                    published, subscriber_outcome, publish_result, inner_result,
                    wait_result >>

\* A reporting liquidator that publishes as soon as the inner call returned.
InnerOutcomePublishedAtOnce(outcome, transactions) ==
    /\ inner_result' = Some(outcome)
    /\ sent' = transactions
    /\ journal' = Append(journal, "inner liquidate")
    /\ IF reporting /\ outcome.kind = "returned" /\ outcome.value # None
       THEN liquidator_pc' = "publish" /\ UNCHANGED liquidate_result
       ELSE liquidator_pc' = "done" /\ liquidate_result' = Some(outcome)

\* How liquidate of the liquidator class ends, and what it sends.
InnerOutcome(outcome, transactions) ==
    /\ inner_result' = Some(outcome)
    /\ sent' = transactions
    /\ journal' = Append(journal, "inner liquidate")
    /\ IF reporting /\ outcome.kind = "returned" /\ outcome.value # None
       THEN liquidator_pc' = "wait" /\ UNCHANGED liquidate_result
       ELSE liquidator_pc' = "done" /\ liquidate_result' = Some(outcome)

\* liquidate of NullAccountLiquidator and of ActualAccountLiquidator (which
\* ForceCancelOrdersAccountLiquidator inherits).
InnerLiquidate ==
    /\ liquidator_pc = "inner"
    /\ LET instruction_builders ==
              prepare_instructions(liquidator, margin_orders, liquidate_instruction)
           transaction(response) ==
              [ instructions |-> instruction_builders, response |-> response ]
       IN  IF liquidator = "NullAccountLiquidator" \/ Len(instruction_builders) = 0
           THEN InnerOutcome(Returned(None), sent)
           ELSE \/ \E response \in Responses :
                      InnerOutcome(unwrap_or_raise_exception(response),
                                   Append(sent, transaction(response)))
                \/ InnerOutcome(Raised("rpc error"),
                                Append(sent, transaction(Raised("rpc error"))))
    /\ UNCHANGED << liquidator, reporting, margin_orders, liquidate_instruction, published,
                    subscriber_outcome, publish_result, wait_result >>

\* How wait_for_confirmation can end: it returns None once the transaction is
\* confirmed, it logs the time-out and returns None after max_wait_in_seconds
\* polls, or its RPC call raises.
WaitOutcomes == { Returned("confirmed"), Returned("timed out"), Raised("rpc error") }

\* A liquidate that stops at a time-out.
goes_on_after_wait_when_confirmed(outcome) == outcome = Returned("confirmed")

\* Whether liquidate goes on after the wait: the call is a statement, its
\* value is not read.
goes_on_after_wait(outcome) == outcome.kind = "returned"

\* context.wait_for_confirmation(transaction_id): it returns, confirmed or
\* timed out, or its RPC call raises.
ReportingWait ==
    /\ liquidator_pc = "wait"
    /\ \E outcome \in WaitOutcomes :
          /\ wait_result' = Some(outcome)
          /\ IF goes_on_after_wait(outcome)
             THEN /\ journal' = Append(journal, "wait for confirmation")
                  /\ liquidator_pc' = "reload"
                  /\ UNCHANGED liquidate_result
             ELSE /\ liquidate_result' =
                        IF outcome.kind = "raised" THEN Some(outcome) ELSE inner_result
                  /\ liquidator_pc' = "done"
                  /\ UNCHANGED journal
    /\ UNCHANGED << liquidator, reporting, margin_orders, liquidate_instruction, sent,
                    published, subscriber_outcome, publish_result, inner_result >>

\* Group.load, MarginAccount.load and fetch_balances after the confirmation:
\* they return, or one of them raises.
ReportingReload ==
    /\ liquidator_pc = "reload"
    /\ \/ /\ journal' = Append(journal, "reload")
          /\ liquidator_pc' = "publish"
          /\ UNCHANGED liquidate_result
       \/ /\ LiquidateRaises("rpc error")
          /\ UNCHANGED journal
    /\ UNCHANGED << liquidator, reporting, margin_orders, liquidate_instruction, sent,
                    published, subscriber_outcome, publish_result, inner_result,
                    wait_result >>

LiquidationEvent(signature) == [ signature |-> signature ]

\* Exceptions, all derived from Exception, a subscriber raises in its on_next.
SubscriberFailures == { "Exception", "ValueError" }

\* How on_next of the subject can end: every subscriber handled the event, or
\* one of them raised.
SubscriberOutcomes ==
    { Returned("handled") } \cup { Raised(e) : e \in SubscriberFailures }

\* A publish that has no except clause for the exception.
caught_by_publish_nothing(exception) == FALSE

\* `except Exception` of EventSource.publish.
caught_by_publish(exception) == exception \in { "Exception", "ValueError", "TypeError" }

\* How EventSource.publish ends when on_next ended as `handled`.
EventSource_publish(handled) ==
    IF handled.kind = "raised" /\ ~ caught_by_publish(handled.value)
    THEN handled
    ELSE Returned("nothing")

\* The event is built and published, and liquidate returns transaction_id.
ReportingPublish ==
    /\ liquidator_pc = "publish"
    /\ \E handled \in SubscriberOutcomes :
          /\ published' =
                Append(published, LiquidationEvent(The(The(inner_result).value)))
          /\ subscriber_outcome' = Some(handled)
          /\ publish_result' = Some(EventSource_publish(handled))
          /\ liquidate_result' =
                Some(IF EventSource_publish(handled).kind = "raised"
                     THEN EventSource_publish(handled)
                     ELSE The(inner_result))
    /\ journal' = Append(journal, "publish")
    /\ liquidator_pc' = "done"
    /\ UNCHANGED << liquidator, reporting, margin_orders, liquidate_instruction, sent,
                    inner_result, wait_result >>

\* No liquidate call in play.
LiquidatorParked ==
    /\ liquidator = "none"
    /\ reporting = FALSE
    /\ margin_orders = << >>
    /\ liquidate_instruction = None
    /\ liquidator_pc = "parked"
    /\ sent = << >>
    /\ journal = << >>
    /\ published = << >>
    /\ subscriber_outcome = None
    /\ publish_result = None
    /\ inner_result = None
    /\ wait_result = None
    /\ liquidate_result = None

(* ------------------------------ WalletBalancer ------------------------- *)

TokenValue(token, token_value) == [ token |-> token, value |-> token_value ]

\* TokenValue.find_by_token: the first value of the list for the token.
find_by_token(values, token) ==
    values[CHOOSE i \in 1..Len(values) :
              /\ values[i].token = token
              /\ \A j \in 1..(i - 1) : values[j].token # token]

Abs(n) == IF n < 0 THEN 0 - n ELSE n

RECURSIVE InsertAscending(_, _)
\* change placed after every element whose value is at most its own.
InsertAscending(sorted, change) ==
    IF sorted = << >> THEN << change >>
    ELSE IF Head(sorted).value <= change.value
         THEN << Head(sorted) >> \o InsertAscending(Tail(sorted), change)
         ELSE << change >> \o sorted

\* The changes left in the order of the targets.
sort_changes_for_trades_unsorted(changes) == changes

RECURSIVE sort_changes_for_trades(_)
\* sorted(changes, key = change.value): a stable ascending sort.
sort_changes_for_trades(changes) ==
    IF changes = << >> THEN << >>
    ELSE InsertAscending(sort_changes_for_trades(SubSeq(changes, 1, Len(changes) - 1)),
                         changes[Len(changes)])

\* The changes computed the wrong way round, current less desired.
calculate_required_balance_changes_reversed(balances, desired_balances) ==
    [ i \in 1..Len(desired_balances) |->
        TokenValue(desired_balances[i].token,
                   find_by_token(balances, desired_balances[i].token).value
                       - desired_balances[i].value) ]

calculate_required_balance_changes(balances, desired_balances) ==
    [ i \in 1..Len(desired_balances) |->
        TokenValue(desired_balances[i].token,
                   desired_balances[i].value
                       - find_by_token(balances, desired_balances[i].token).value) ]

\* FilterSmallChanges.__init__: total, the sum of price times balance.
total_balance(balances, token_prices) ==
    SumFrom([ i \in 1..Len(balances) |->
                find_by_token(token_prices, balances[i].token).value * balances[i].value ],
            1, Len(balances))

\* A filter that also lets through a change worth exactly the threshold.
allow_at_threshold(threshold, balances, token_prices, token_value) ==
    Abs(find_by_token(token_prices, token_value.token).value * token_value.value)
            * threshold[2]
        >= total_balance(balances, token_prices) * threshold[1]

\* FilterSmallChanges.allow: |price * change| > total * action_threshold, the
\* threshold being the fraction threshold[1] / threshold[2].
allow(threshold, balances, token_prices, token_value) ==
    Abs(find_by_token(token_prices, token_value.token).value * token_value.value)
            * threshold[2]
        > total_balance(balances, token_prices) * threshold[1]

\* The call _make_changes makes for a change.
Trade(change) ==
    [ side     |-> IF change.value < 0 THEN "sell" ELSE "buy",
      symbol   |-> change.token,
      quantity |-> Abs(change.value) ]

\* Prices of ETH, BTC and USDT a balance call is given.
BalancerPriceVectors ==
    { << TokenValue("ETH", 5), TokenValue("BTC", 5), TokenValue("USDT", 1) >>,
      << TokenValue("ETH", 4), TokenValue("BTC", 6), TokenValue("USDT", 1) >> }

\* The action thresholds a balancer is built with: a half and a tenth of the
\* wallet's total value.
ActionThresholds == { << 1, 2 >>, << 1, 10 >> }

\* A LiveWalletBalancer for the tokens ETH, BTC and USDT with targets for ETH
\* and BTC, at the start of a balance call.
BalancerInit ==
    /\ action_threshold \in ActionThresholds
    /\ balancer_prices \in BalancerPriceVectors
    /\ current_balances \in
          { << TokenValue("ETH", eth), TokenValue("BTC", btc), TokenValue("USDT", usdt) >> :
              eth \in 0..MaxBalance, btc \in 0..MaxBalance, usdt \in { 0, 10 } }
    /\ resolved_targets \in
          { << TokenValue("ETH", eth), TokenValue("BTC", btc) >> :
              eth \in 0..MaxBalance, btc \in 0..MaxBalance }
    /\ balance_changes = << >>
    /\ filtered_changes = << >>
    /\ sorted_changes = << >>
    /\ trades = << >>
    /\ balancer_pc = "start"
    /\ balance_result = None

\* balance up to _make_changes: the changes are computed, filtered and sorted,
\* and the call returns when the filter leaves none.
BalanceChanges ==
    /\ balancer_pc = "start"
    /\ LET changes == calculate_required_balance_changes(current_balances, resolved_targets)
           filtered == SelectSeq(changes,
                                 LAMBDA change : allow(action_threshold, current_balances,
                                                       balancer_prices, change))
       IN  /\ balance_changes' = changes
           /\ filtered_changes' = filtered
           /\ IF Len(filtered) = 0
              THEN /\ balance_result' = Some(Returned("no balance changes"))
                   /\ balancer_pc' = "done"
                   /\ UNCHANGED sorted_changes
              ELSE /\ sorted_changes' = sort_changes_for_trades(filtered)
                   /\ balancer_pc' = "make changes"
                   /\ UNCHANGED balance_result
    /\ UNCHANGED << action_threshold, balancer_prices, current_balances, resolved_targets,
                    trades >>

\* One pass of the loop of _make_changes: the trade returns, or it raises and
\* the exception leaves balance.
MakeChange ==
    /\ balancer_pc = "make changes"
    /\ Len(trades) < Len(sorted_changes)
    /\ trades' = Append(trades, Trade(sorted_changes[Len(trades) + 1]))
    /\ \/ UNCHANGED << balancer_pc, balance_result >>
       \/ /\ balance_result' = Some(Raised("trade failed"))
          /\ balancer_pc' = "done"
    /\ UNCHANGED << action_threshold, balancer_prices, current_balances, resolved_targets,
                    balance_changes, filtered_changes, sorted_changes >>

\* _make_changes is through; the balances are fetched again and balance returns.
BalanceReturns ==
    /\ balancer_pc = "make changes"
    /\ Len(trades) >= Len(sorted_changes)
    /\ balance_result' = Some(Returned("balanced"))
    /\ balancer_pc' = "done"
    /\ UNCHANGED << action_threshold, balancer_prices, current_balances, resolved_targets,
                    balance_changes, filtered_changes, sorted_changes, trades >>

\* No balance call in play.
BalancerParked ==
    /\ action_threshold = << 0, 1 >>
    /\ balancer_prices = << >>
    /\ current_balances = << >>
    /\ resolved_targets = << >>
    /\ balance_changes = << >>
    /\ filtered_changes = << >>
    /\ sorted_changes = << >>
    /\ trades = << >>
    /\ balancer_pc = "parked"
    /\ balance_result = None

(* ------------------------- target balances of a wallet ----------------- *)

FixedTargetBalance(token, fixed_value) ==
    [ class |-> "FixedTargetBalance", token |-> token, value |-> fixed_value,
      target_fraction |-> << 0, 1 >> ]

\* self.target_fraction = target_percentage / 100, kept as a fraction.
PercentageTargetBalance(token, target_percentage) ==
    [ class |-> "PercentageTargetBalance", token |-> token, value |-> 0,
      target_fraction |-> << target_percentage, 100 >> ]

\* The quotient n / d of two Decimals, n >= 0 and d > 0, rounded half to even
\* at the precision of the context: one unit of the token here.
decimal_quotient(n, d) ==
    LET q == n \div d
        r == n % d
    IN  IF 2 * r > d THEN q + 1
        ELSE IF 2 * r = d THEN q + (q % 2)
        ELSE q

\* A Percentage target resolved to its share of the total value, the price of
\* the token left out.
resolve_without_price(target, current_price, wallet_value) ==
    IF target.class = "FixedTargetBalance"
    THEN TokenValue(target.token, target.value)
    ELSE TokenValue(target.token,
                    decimal_quotient(wallet_value * target.target_fraction[1],
                                     target.target_fraction[2]))

\* FixedTargetBalance.resolve and PercentageTargetBalance.resolve. The product
\* total_value * target_fraction is exact; the division by the price rounds.
resolve(target, current_price, wallet_value) ==
    IF target.class = "FixedTargetBalance"
    THEN TokenValue(target.token, target.value)
    ELSE TokenValue(target.token,
                    decimal_quotient(wallet_value * target.target_fraction[1],
                                     target.target_fraction[2] * current_price))

\* The loop of balance that adds up bal.value * price.value.
starting_total_value(balances, token_prices) ==
    SumFrom([ i \in 1..Len(balances) |->
                balances[i].value * find_by_token(token_prices, balances[i].token).value ],
            1, Len(balances))

\* The target lists of a balancer: targets for ETH and BTC in either order,
\* fixed or a percentage of 20 or 50, or percentages of ETH, BTC and USDT that
\* add up to 100.
TargetLists ==
    LET TargetsOf(token) ==
            { FixedTargetBalance(token, fixed_value) : fixed_value \in 0..MaxBalance }
                \cup { PercentageTargetBalance(token, p) : p \in { 20, 50 } }
    IN  { << eth, btc >> : eth \in TargetsOf("ETH"), btc \in TargetsOf("BTC") }
            \cup { << btc, eth >> : eth \in TargetsOf("ETH"), btc \in TargetsOf("BTC") }
            \cup { << PercentageTargetBalance("ETH", p),
                      PercentageTargetBalance("BTC", q),
                      PercentageTargetBalance("USDT", 100 - p - q) >> :
                     p \in { 0, 20, 50 }, q \in { 0, 20, 50 } }

\* The targets, prices and balances of the test of WalletBalancer.py, balances
\* counted in hundredths of a token: 20% ETH and 0.05 BTC, 0.6 ETH, 0.01 BTC and
\* 7000 USDT at 4000 and 60000.
TestTargets ==
    /\ target_balances = << PercentageTargetBalance("ETH", 20), FixedTargetBalance("BTC", 5) >>
    /\ balancer_prices =
          << TokenValue("ETH", 4000), TokenValue("BTC", 60000), TokenValue("USDT", 1) >>
    /\ current_balances =
          << TokenValue("ETH", 60), TokenValue("BTC", 1), TokenValue("USDT", 700000) >>

\* A LiveWalletBalancer with its targets, at the start of a balance call, the
\* balances fetched.
TargetsInit ==
    /\ action_threshold \in ActionThresholds
    /\ \/ /\ target_balances \in TargetLists
          /\ balancer_prices \in BalancerPriceVectors
          /\ current_balances \in
                { << TokenValue("ETH", eth), TokenValue("BTC", btc),
                     TokenValue("USDT", usdt) >> :
                    eth \in 0..MaxBalance, btc \in 0..MaxBalance, usdt \in { 0, 10 } }
       \/ TestTargets
    /\ resolved_targets = << >>
    /\ balance_changes = << >>
    /\ filtered_changes = << >>
    /\ sorted_changes = << >>
    /\ trades = << >>
    /\ balancer_pc = "fetched"
    /\ balance_result = None

\* balance from the total value to the resolved targets.
ResolveTargets ==
    /\ balancer_pc = "fetched"
    /\ LET wallet_value == starting_total_value(current_balances, balancer_prices)
       IN  resolved_targets' =
              [ i \in 1..Len(target_balances) |->
                  resolve(target_balances[i],
                          find_by_token(balancer_prices, target_balances[i].token).value,
                          wallet_value) ]
    /\ balancer_pc' = "start"
    /\ UNCHANGED << action_threshold, balancer_prices, current_balances, balance_changes,
                    filtered_changes, sorted_changes, trades, balance_result,
                    target_balances >>

(* --------------------------- TargetBalanceParser ----------------------- *)

RECURSIVE split(_, _)
\* str.split(separator): the pieces between the separators, empty ones kept.
\* A string is the sequence of its characters.
split(text, separator) ==
    IF \A k \in 1..Len(text) : text[k] # separator
    THEN << text >>
    ELSE LET k == CHOOSE k \in 1..Len(text) :
                     /\ text[k] = separator
                     /\ \A j \in 1..(k - 1) : text[j] # separator
         IN  << SubSeq(text, 1, k - 1) >> \o split(SubSeq(text, k + 1, Len(text)), separator)

\* Decimal(text): None when the text is no number, else the number as its
\* coefficient and exponent. Spaces around the number are dropped; a number is
\* digits, or digits, e or E, and digits.
to_decimal(text) ==
    LET inked == { k \in 1..Len(text) : text[k] # " " }
        first == CHOOSE k \in inked : \A j \in inked : k <= j
        last == CHOOSE k \in inked : \A j \in inked : j <= k
        stripped == SubSeq(text, first, last)
        digits(piece) == Len(piece) > 0 /\ \A k \in 1..Len(piece) : piece[k] = "2"
        number(piece) == SumFrom([ k \in 1..Len(piece) |-> 2 * 10 ^ (Len(piece) - k) ],
                                 1, Len(piece))
        marks == { k \in 1..Len(stripped) : stripped[k] \in { "e", "E" } }
        mark == CHOOSE k \in marks : TRUE
    IN  IF inked = {} THEN None
        ELSE IF digits(stripped)
        THEN Some([ coefficient |-> number(stripped), exponent |-> 0 ])
        ELSE IF /\ Cardinality(marks) = 1
                /\ digits(SubSeq(stripped, 1, mark - 1))
                /\ digits(SubSeq(stripped, mark + 1, Len(stripped)))
        THEN Some([ coefficient |-> number(SubSeq(stripped, 1, mark - 1)),
                    exponent |-> number(SubSeq(stripped, mark + 1, Len(stripped))) ])
        ELSE None

\* TargetBalanceParser.parse, with Token.find_by_name: the target, or the
\* exception raised.
parse(tokens, text) ==
    LET pieces == split(text, ":")
        upper(name) == [ k \in 1..Len(name) |-> IF name[k] = "e" THEN "E" ELSE name[k] ]
        found == SelectSeq(tokens, LAMBDA token : upper(token) = upper(pieces[1]))
        values == split(pieces[2], "%")
        numeric_value == to_decimal(values[1])
    IN  IF Len(pieces) # 2 THEN Raised("Exception")
        ELSE IF Len(found) # 1 THEN Raised("Exception")
        ELSE IF numeric_value = None THEN Raised("Exception")
        ELSE IF Len(values) > 2 THEN Raised("Exception")
        ELSE IF Len(values) = 1
        THEN Returned(FixedTargetBalance(found[1], The(numeric_value)))
        ELSE Returned(PercentageTargetBalance(found[1], The(numeric_value)))

\* A parser for the token E and a string of at most MaxChars characters, out
\* of the letters E and e, the digit 2, the colon, the % sign and the space.
ParserInit ==
    /\ parser_tokens = << << "E" >> >>
    /\ to_parse \in UNION { [ 1..n -> { "E", "e", "2", ":", "%", " " } ] : n \in 0..MaxChars }
    /\ parse_result = None

\* The call parser.parse(to_parse).
Parse ==
    /\ parse_result = None
    /\ parser_tokens # << >>
    /\ parse_result' = Some(parse(parser_tokens, to_parse))
    /\ UNCHANGED << parser_tokens, to_parse >>

(* ----------------------- SerumImmediateTradeExecutor ------------------- *)

\* The steps _execute takes, as the log of a trade names them.
ExecuteSteps == << "place order", "wait for order fill", "settle", "wait for settlement" >>

\* What an RPC call of the executor can end in: one of the responses, or an
\* exception raised by the call itself.
RpcOutcomes == Responses \cup { [ kind |-> "raised", value |-> e ] : e \in Exceptions }

\* How the caller of an RPC call and of unwrap_transaction_id_or_raise_exception
\* goes on: with the transaction id, or with the exception raised.
unwrapped(outcome) ==
    IF outcome.kind = "raised" THEN Raised(outcome.value)
    ELSE LET result == unwrap_or_raise_exception(outcome)
         IN  IF result.kind = "raised" THEN result ELSE Returned(The(result.value))

\* A retrier that makes one pass more than it was given retries.
retrier_goes_on_once_more(passes, retries_given) == passes <= retries_given

\* for counter in range(self.retries): another pass after `passes` failed ones.
retrier_goes_on(passes, retries_given) == passes < retries_given

\* An _execute that goes on to the order fill whatever _place_order ended in.
after_place_order_regardless(placed) == "wait for order fill"

\* _execute after _place_order: on to the wait for the fill, or out with the
\* exception _place_order raised.
after_place_order(placed) ==
    IF placed.kind = "returned" THEN "wait for order fill" ELSE "done"

\* A settle that asks for both free amounts to be positive.
settle_when_both_free(accounts, outcomes) ==
    LET needed == { i \in 1..Len(accounts) :
                      accounts[i].base_token_free > 0 /\ accounts[i].quote_token_free > 0 }
        failed == { i \in needed : unwrapped(outcomes[i]).kind = "raised" }
        first_failed == CHOOSE i \in failed : \A j \in failed : i <= j
        called == IF failed = {} THEN needed ELSE { i \in needed : i <= first_failed }
        in_order(indices) == SelectSeq([ i \in 1..Len(accounts) |-> i ],
                                       LAMBDA i : i \in indices)
    IN  [ calls  |-> [ k \in 1..Cardinality(called) |->
                         [ account |-> in_order(called)[k],
                           outcome |-> outcomes[in_order(called)[k]] ] ],
          result |-> IF failed = {}
                     THEN Returned([ k \in 1..Cardinality(needed) |->
                                       unwrapped(outcomes[in_order(needed)[k]]).value ])
                     ELSE Raised(<< unwrapped(outcomes[first_failed]).value >>) ]

\* settle, from the open-orders accounts it loads and from what settle_funds
\* answers for each: the accounts settle_funds is called for, in order, and the
\* list of transaction ids returned or the exception (in a list) raised by the
\* first call that fails. A call is the place of its account in the list with
\* what settle_funds answered.
settle(accounts, outcomes) ==
    LET needed == { i \in 1..Len(accounts) :
                      accounts[i].base_token_free > 0 \/ accounts[i].quote_token_free > 0 }
        failed == { i \in needed : unwrapped(outcomes[i]).kind = "raised" }
        first_failed == CHOOSE i \in failed : \A j \in failed : i <= j
        called == IF failed = {} THEN needed ELSE { i \in needed : i <= first_failed }
        in_order(indices) == SelectSeq([ i \in 1..Len(accounts) |-> i ],
                                       LAMBDA i : i \in indices)
    IN  [ calls  |-> [ k \in 1..Cardinality(called) |->
                         [ account |-> in_order(called)[k],
                           outcome |-> outcomes[in_order(called)[k]] ] ],
          result |-> IF failed = {}
                     THEN Returned([ k \in 1..Cardinality(needed) |->
                                       unwrapped(outcomes[in_order(needed)[k]]).value ])
                     ELSE Raised(<< unwrapped(outcomes[first_failed]).value >>) ]

\* buy(symbol, quantity) or sell(symbol, quantity) called on an executor.
ExecutorInit ==
    /\ trade_call \in { [ side |-> side, symbol |-> "ETH", quantity |-> 1 ] :
                          side \in { "BUY", "SELL" } }
    /\ executor_pc = "start"
    /\ order_arguments = None
    /\ place_order_calls = << >>
    /\ open_orders = << >>
    /\ settle_calls = << >>
    /\ settlement_transaction_ids = None
    /\ executor_log = << >>
    /\ fill_result = None
    /\ execute_result = None

\* The call ends by raising.
ExecutorRaises(exception) ==
    /\ execute_result' = Some(Raised(exception))
    /\ executor_pc' = "done"

\* buy or sell up to the retrier of _place_order: the market, the top of the
\* book and the source token account are found, or one of them is not and the
\* call raises; _place_order draws the client id.
ExecutorPrepare ==
    /\ executor_pc = "start"
    /\ \/ /\ \E missing \in { "market not in group", "empty order book",
                              "no source token account" } : ExecutorRaises(missing)
          /\ UNCHANGED << order_arguments, executor_log >>
       \/ /\ \E client_id \in { 1, 2 }, price \in { 4 } :
                order_arguments' = Some([ side      |-> trade_call.side,
                                          price     |-> price,
                                          quantity  |-> trade_call.quantity,
                                          client_id |-> client_id ])
          /\ executor_log' = Append(executor_log, "place order")
          /\ executor_pc' = "place order"
          /\ UNCHANGED execute_result
    /\ UNCHANGED << trade_call, fill_result, place_order_calls, open_orders, settle_calls,
                    settlement_transaction_ids >>

\* One pass of retrier.run(...): market.place_order raises and the exception
\* is captured, or it returns and _place_order unwraps the response.
PlaceOrderAttempt ==
    /\ executor_pc = "place order"
    /\ retrier_goes_on(Len(place_order_calls), place_order_retries)
    /\ \E outcome \in RpcOutcomes :
          /\ place_order_calls' =
                Append(place_order_calls,
                       [ arguments |-> The(order_arguments), outcome |-> outcome ])
          /\ IF outcome.kind = "raised"
             THEN UNCHANGED << executor_pc, execute_result, executor_log >>
             ELSE LET next_pc == after_place_order(unwrapped(outcome))
                  IN  /\ executor_pc' = next_pc
                      /\ execute_result' =
                            IF unwrapped(outcome).kind = "raised"
                            THEN Some(unwrapped(outcome))
                            ELSE execute_result
                      /\ executor_log' =
                            IF next_pc = "done" THEN executor_log
                            ELSE Append(executor_log, next_pc)
    /\ UNCHANGED << trade_call, fill_result, order_arguments, open_orders, settle_calls,
                    settlement_transaction_ids >>

\* The passes are used up: run raises the exception it captured last.
PlaceOrderExhausted ==
    /\ executor_pc = "place order"
    /\ ~ retrier_goes_on(Len(place_order_calls), place_order_retries)
    /\ ExecutorRaises(place_order_calls[Len(place_order_calls)].outcome.value)
    /\ UNCHANGED << trade_call, fill_result, order_arguments, place_order_calls, open_orders,
                    settle_calls, settlement_transaction_ids, executor_log >>

\* How _wait_for_order_fill can end: it returns True when a fill for the
\* client id is seen, the timeout stage makes it return False after
\* max_wait_in_seconds, or load_event_queue raises.
FillOutcomes ==
    { Returned("True"), Returned("False") } \cup { Raised(e) : e \in Exceptions }

\* An _execute that stops when no fill was seen.
goes_on_after_fill_wait_when_filled(outcome) == outcome = Returned("True")

\* Whether _execute goes on after the wait for the fill: the call is a
\* statement, its value is not read.
goes_on_after_fill_wait(outcome) == outcome.kind = "returned"

\* _wait_for_order_fill: it returns, the fill seen or the wait timed out, or
\* load_event_queue raises; and on to settle.
WaitForOrderFill ==
    /\ executor_pc = "wait for order fill"
    /\ \E outcome \in FillOutcomes :
          /\ fill_result' = Some(outcome)
          /\ IF goes_on_after_fill_wait(outcome)
             THEN /\ executor_pc' = "settle"
                  /\ executor_log' = Append(executor_log, "settle")
                  /\ UNCHANGED execute_result
             ELSE /\ ExecutorRaises(IF outcome.kind = "raised" THEN outcome.value
                                    ELSE "order not filled")
                  /\ UNCHANGED executor_log
    /\ UNCHANGED << trade_call, order_arguments, place_order_calls, open_orders,
                    settle_calls, settlement_transaction_ids >>

\* settle(market_metadata, market), and on to the wait for its transactions.
\* settle_funds answers with a transaction id or an RPC error, or it raises.
Settle ==
    /\ executor_pc = "settle"
    /\ \E accounts \in UNION { [ 1..n -> [ base_token_free : 0..1, quote_token_free : 0..1 ] ] :
                                 n \in 0..MaxOpenOrders } :
          \E outcomes \in [ 1..Len(accounts) ->
                              { o \in RpcOutcomes : o.value \notin { "str", "e2" } } ] :
             LET settled == settle(accounts, outcomes)
             IN  /\ open_orders' = accounts
                 /\ settle_calls' = settled.calls
                 /\ IF settled.result.kind = "raised"
                    THEN /\ ExecutorRaises(settled.result.value[1])
                         /\ UNCHANGED << settlement_transaction_ids, executor_log >>
                    ELSE /\ settlement_transaction_ids' = Some(settled.result.value)
                         /\ executor_pc' = "wait for settlement"
                         /\ executor_log' = Append(executor_log, "wait for settlement")
                         /\ UNCHANGED execute_result
    /\ UNCHANGED << trade_call, fill_result, order_arguments, place_order_calls >>

\* wait_for_settlement_completion: wait_for_confirmation for each transaction
\* id; then _execute, and buy or sell, return.
WaitForSettlement ==
    /\ executor_pc = "wait for settlement"
    /\ \/ /\ execute_result' = Some(Returned("Order execution complete"))
          /\ executor_pc' = "done"
       \/ /\ The(settlement_transaction_ids) # << >>
          /\ \E e \in Exceptions : ExecutorRaises(e)
    /\ UNCHANGED << trade_call, fill_result, order_arguments, place_order_calls, open_orders,
                    settle_calls, settlement_transaction_ids, executor_log >>

(* ------------------ balance sheets and the filters of a tick ----------- *)

\* The accounts whose balance sheets are drawn up: the first accounts of a
\* population of the group TheGroup, or one account of a group with other indexes, whose deposits,
\* borrows and open-orders totals vary token by token.
SheetsInit ==
    /\ sheet_prices \in PriceVectors
    /\ \/ /\ sheet_group = TheGroup
          /\ sheet_accounts \in
                { [ address \in 1..n |-> MarginAccount(address, population[address]) ] :
                    population \in Populations, n \in 0..3 }
       \/ /\ sheet_group \in { TheGroup,
                               [ maint_coll_ratio |-> << 11, 10 >>,
                                 index_deposit    |-> << 2, 1, 3 >>,
                                 index_borrow     |-> << 1, 3, 2 >> ] }
          /\ \E deposits \in [ 1..NUM_TOKENS -> { 0, 2 } ],
                borrows \in [ 1..NUM_TOKENS -> { 0, 1 } ],
                open_orders_accounts \in
                   [ 1..NUM_MARKETS ->
                       { None } \cup { Some([ base_token_total |-> b, quote_token_total |-> q ]) :
                                         b \in 0..1, q \in 0..1 } ] :
                sheet_accounts =
                   << MarginAccount(1, Contents(deposits, borrows, open_orders_accounts)) >>
    /\ intrinsic_balance_sheets = << >>
    /\ sheet_properties = << >>
    /\ funnel = << >>
    /\ sheets_pc = "start"

\* The for loop of update_prices: the balance sheets of every account, and
\* what the properties of each intrinsic sheet and of the totals read.
EvaluateSheets ==
    /\ sheets_pc = "start"
    /\ LET read(sheet) == [ sheet            |-> sheet,
                            assets           |-> assets(sheet),
                            value            |-> value(sheet),
                            collateral_ratio |-> collateral_ratio(sheet) ]
       IN  /\ intrinsic_balance_sheets' =
                 [ a \in 1..Len(sheet_accounts) |->
                     get_intrinsic_balance_sheets(sheet_accounts[a], sheet_group) ]
           /\ sheet_properties' =
                 [ a \in 1..Len(sheet_accounts) |->
                     [ i \in 1..(NUM_TOKENS + 1) |->
                         IF i <= NUM_TOKENS
                         THEN read(get_intrinsic_balance_sheets(sheet_accounts[a],
                                                                sheet_group)[i])
                         ELSE read(get_balance_sheet_totals(sheet_accounts[a], sheet_group,
                                                            sheet_prices)) ] ]
    /\ sheets_pc' = "evaluated"
    /\ UNCHANGED << sheet_group, sheet_prices, sheet_accounts, funnel >>

\* The three filters of update_prices, each list kept.
FilterSheets ==
    /\ sheets_pc = "evaluated"
    /\ LET updated_list == [ a \in 1..Len(sheet_accounts) |->
                               Metadata(sheet_accounts[a], sheet_group, sheet_prices) ]
           liquidatable_list == liquidatable(updated_list, sheet_group)
           above_water_list == above_water(liquidatable_list)
       IN  funnel' = << updated_list, liquidatable_list, above_water_list,
                        worthwhile(above_water_list) >>
    /\ sheets_pc' = "filtered"
    /\ UNCHANGED << sheet_group, sheet_prices, sheet_accounts, intrinsic_balance_sheets,
                    sheet_properties >>

(* --------------------------- TokenValue.changes ------------------------ *)

\* TokenValue.find_by_mint: the one value of the list for the mint; it raises
\* when the list holds none, or more than one.  A token stands for its mint.
find_by_mint(values, mint) ==
    LET found == SelectSeq(values, LAMBDA token_value : token_value.token = mint)
    IN  IF Len(found) = 0 THEN Raised("not found in token values")
        ELSE IF Len(found) > 1 THEN Raised("matched multiple tokens in values")
        ELSE Returned(found[1])

\* The same loop, taking the value after from the value before.
changes_before_minus_after(before, after) ==
    LET after_balance(i) == find_by_mint(after, before[i].token)
        raising == { i \in 1..Len(before) : after_balance(i).kind = "raised" }
    IN  IF raising # { }
        THEN after_balance(CHOOSE i \in raising : \A j \in raising : i <= j)
        ELSE Returned([ i \in 1..Len(before) |->
                          TokenValue(before[i].token,
                                     before[i].value - after_balance(i).value.value) ])

\* TokenValue.changes: one change per value of `before`, in its order; the
\* first find_by_token that raises ends the loop.
changes(before, after) ==
    LET after_balance(i) == find_by_mint(after, before[i].token)
        raising == { i \in 1..Len(before) : after_balance(i).kind = "raised" }
    IN  IF raising # { }
        THEN after_balance(CHOOSE i \in raising : \A j \in raising : i <= j)
        ELSE Returned([ i \in 1..Len(before) |->
                          TokenValue(before[i].token,
                                     after_balance(i).value.value - before[i].value) ])

\* The balances of _notebook_tests, in hundredths.
TestBalancesBefore ==
    << TokenValue("ETH", 100), TokenValue("BTC", 10), TokenValue("USDT", 100000) >>

TestBalancesAfter ==
    << TokenValue("ETH", 100), TokenValue("BTC", 5), TokenValue("USDT", 200000) >>

\* Two lists of at most two values each, of any tokens, or the two lists of
\* _notebook_tests.
ChangesInit ==
    /\ LET values == { TokenValue(token, token_value) :
                         token \in { "ETH", "BTC" }, token_value \in 0..MaxBalance }
           lists == { << >> } \cup { << v >> : v \in values }
                              \cup { << v, w >> : v \in values, w \in values }
       IN  \/ changes_before \in lists /\ changes_after \in lists
           \/ changes_before = TestBalancesBefore /\ changes_after = TestBalancesAfter
    /\ changes_result = None

\* One call of TokenValue.changes.
Changes ==
    /\ changes_result = None
    /\ changes_result' = Some(changes(changes_before, changes_after))
    /\ UNCHANGED << changes_before, changes_after >>

(* --------------------- find_by_name and find_by_mint ------------------- *)

\* str.upper, on the names the model uses.
upper(name) ==
    CASE name \in { "eth", "Eth", "ETH" } -> "ETH"
      [] name \in { "btc", "Btc", "BTC" } -> "BTC"
      [] name \in { "sol", "SOL" } -> "SOL"
      [] OTHER -> name

\* Token.__init__: the name is stored in upper case.
Token(name, mint, decimals) == [ name |-> upper(name), mint |-> mint, decimals |-> decimals ]

\* Token.name_matches
name_matches(token, name) == upper(token.name) = upper(name)

\* BasketToken.__init__
BasketToken(token, vault, index) == [ token |-> token, vault |-> vault, index |-> index ]

\* The six helpers, by class and name.
LookupHelpers ==
    { "Token.find_by_name", "Token.find_by_mint",
      "BasketToken.find_by_name", "BasketToken.find_by_mint",
      "TokenValue.find_by_name", "TokenValue.find_by_mint" }

\* The same helpers, returning the first of several matches.
lookup_first_match(helper, values, key) ==
    LET matching(element) ==
            CASE helper = "Token.find_by_name" -> name_matches(element, key)
              [] helper = "Token.find_by_mint" -> element.mint = key
              [] helper = "BasketToken.find_by_name" -> name_matches(element.token, key)
              [] helper = "BasketToken.find_by_mint" -> element.token.mint = key
              [] helper = "TokenValue.find_by_name" -> name_matches(element.token, key)
              [] helper = "TokenValue.find_by_mint" -> element.token.mint = key
        found == SelectSeq(values, matching)
    IN  IF Len(found) = 0 THEN Raised("not found in token values")
        ELSE Returned(found[1])

\* find_by_name and find_by_mint of Token, BasketToken and TokenValue: the
\* list `found` of the matching elements, an exception unless it holds one
\* element, and that element.
lookup(helper, values, key) ==
    LET matching(element) ==
            CASE helper = "Token.find_by_name" -> name_matches(element, key)
              [] helper = "Token.find_by_mint" -> element.mint = key
              [] helper = "BasketToken.find_by_name" -> name_matches(element.token, key)
              [] helper = "BasketToken.find_by_mint" -> element.token.mint = key
              [] helper = "TokenValue.find_by_name" -> name_matches(element.token, key)
              [] helper = "TokenValue.find_by_mint" -> element.token.mint = key
        found == SelectSeq(values, matching)
    IN  IF Len(found) = 0 THEN Raised("not found in token values")
        ELSE IF Len(found) > 1 THEN Raised("matched multiple tokens in values")
        ELSE Returned(found[1])

\* A helper, a list of at most MaxValues elements of its class, and a name or
\* a mint to look for.  The tokens are constructed from names in any case; the
\* vault of a basket token and the value of a token value tell apart the
\* elements of a list.
LookupInit ==
    /\ lookup_helper \in LookupHelpers
    /\ \E n \in 0..MaxValues :
          \E tokens \in [ 1..n -> { Token(name, mint, 6) :
                                      name \in { "eth", "ETH", "Btc" },
                                      mint \in { "mint A", "mint B" } } ] :
             lookup_values =
                [ i \in 1..n |->
                    CASE lookup_helper \in { "Token.find_by_name", "Token.find_by_mint" } ->
                            tokens[i]
                      [] lookup_helper \in { "BasketToken.find_by_name",
                                             "BasketToken.find_by_mint" } ->
                            BasketToken(tokens[i], i, 0)
                      [] OTHER -> TokenValue(tokens[i], i) ]
    /\ lookup_key \in
          IF lookup_helper \in { "Token.find_by_name", "BasketToken.find_by_name",
                                 "TokenValue.find_by_name" }
          THEN { "eth", "ETH", "btc", "BTC", "SOL" }
          ELSE { "mint A", "mint B", "mint C" }
    /\ lookup_result = None

\* One call of a helper.
Lookup ==
    /\ lookup_result = None
    /\ lookup_helper \in LookupHelpers
    /\ lookup_result' = Some(lookup(lookup_helper, lookup_values, lookup_key))
    /\ UNCHANGED << lookup_helper, lookup_values, lookup_key >>

(* ------------------------ layouts and their parse ---------------------- *)

\* The bytes of a field, by its adapter: DecimalAdapter and FloatAdapter by
\* their default size, PublicKeyAdapter, DatetimeAdapter, and the two flag words.
DecimalAdapter_size == 8

FloatAdapter_size == 16

PublicKeyAdapter_size == 32

DatetimeAdapter_size == 8

ACCOUNT_FLAGS_sizeof == 8

INDEX_sizeof == DatetimeAdapter_size + FloatAdapter_size + FloatAdapter_size

GROUP_PADDING == 8 - ((NUM_TOKENS + NUM_MARKETS) % 8)

GROUP_sizeof ==
    ACCOUNT_FLAGS_sizeof
    + NUM_TOKENS * PublicKeyAdapter_size      \* tokens
    + NUM_TOKENS * PublicKeyAdapter_size      \* vaults
    + NUM_TOKENS * INDEX_sizeof               \* indexes
    + NUM_MARKETS * PublicKeyAdapter_size     \* spot_markets
    + NUM_MARKETS * PublicKeyAdapter_size     \* oracles
    + DecimalAdapter_size                     \* signer_nonce
    + PublicKeyAdapter_size                   \* signer_key
    + PublicKeyAdapter_size                   \* dex_program_id
    + NUM_TOKENS * FloatAdapter_size          \* total_deposits
    + NUM_TOKENS * FloatAdapter_size          \* total_borrows
    + FloatAdapter_size                       \* maint_coll_ratio
    + FloatAdapter_size                       \* init_coll_ratio
    + PublicKeyAdapter_size                   \* srm_vault
    + PublicKeyAdapter_size                   \* admin
    + NUM_TOKENS * DecimalAdapter_size        \* borrow_limits
    + NUM_TOKENS * 1                          \* mint_decimals
    + NUM_MARKETS * 1                         \* oracle_decimals
    + GROUP_PADDING * 1                       \* padding

MARGIN_ACCOUNT_sizeof ==
    ACCOUNT_FLAGS_sizeof
    + PublicKeyAdapter_size                   \* mango_group
    + PublicKeyAdapter_size                   \* owner
    + NUM_TOKENS * FloatAdapter_size          \* deposits
    + NUM_TOKENS * FloatAdapter_size          \* borrows
    + NUM_MARKETS * PublicKeyAdapter_size     \* open_orders
    + 8                                       \* padding

AGGREGATOR_sizeof ==
    (32 + 1 + 1 + 1 + 1 + DecimalAdapter_size + PublicKeyAdapter_size)   \* config
    + 1                                       \* initialized
    + PublicKeyAdapter_size                   \* owner
    + 3 * DecimalAdapter_size                 \* round
    + PublicKeyAdapter_size                   \* round_submissions
    + (2 * DecimalAdapter_size + 2 * DatetimeAdapter_size)               \* answer
    + PublicKeyAdapter_size                   \* answer_submissions

\* The layout the parse method of each class reads.
LayoutOf ==
    [ Group |-> "GROUP", MarginAccount |-> "MARGIN_ACCOUNT", OpenOrders |-> "OPEN_ORDERS",
      Aggregator |-> "AGGREGATOR", TokenAccount |-> "TOKEN_ACCOUNT" ]

\* OPEN_ORDERS and TOKEN_ACCOUNT: records of a known byte length, like the others.
UndefinedLayoutSizes == { 8, 165 }

\* layout.sizeof(): of the layouts of Layout.py the sum of their fields, of
\* the other two the known length given.
sizeof(layout, undefined) ==
    CASE layout = "GROUP" -> GROUP_sizeof
      [] layout = "MARGIN_ACCOUNT" -> MARGIN_ACCOUNT_sizeof
      [] layout = "AGGREGATOR" -> AGGREGATOR_sizeof
      [] OTHER -> undefined

\* The same method, refusing only data shorter than the layout.
parse_account_with_room(class, data, undefined) ==
    IF data.length < sizeof(LayoutOf[class], undefined)
    THEN Raised("Data length does not match expected size")
    ELSE IF ~ data.decodes THEN Raised("error after the length check")
    ELSE Returned([ class |-> class, layout |-> LayoutOf[class] ])

\* The parse method of Group, MarginAccount, OpenOrders, Aggregator and
\* TokenAccount: the check of the length, then the layout's parse and
\* from_layout, which give the record unless one of them raises.
parse_account(class, data, undefined) ==
    IF data.length # sizeof(LayoutOf[class], undefined)
    THEN Raised("Data length does not match expected size")
    ELSE IF ~ data.decodes THEN Raised("error after the length check")
    ELSE Returned([ class |-> class, layout |-> LayoutOf[class] ])

\* A class and the data of an account: of any length up to a little more than
\* the largest layout, its bytes such that the parse behind the length check
\* succeeds, or not.
RecordInit ==
    /\ record_class \in DOMAIN LayoutOf
    /\ undefined_sizeof \in
          IF LayoutOf[record_class] \in { "OPEN_ORDERS", "TOKEN_ACCOUNT" }
          THEN UndefinedLayoutSizes ELSE { 0 }
    /\ account_data \in [ length : 0..(GROUP_sizeof + 2), decodes : BOOLEAN ]
    /\ record_result = None

\* One call of parse.
ParseAccount ==
    /\ record_result = None
    /\ record_class \in DOMAIN LayoutOf
    /\ record_result' = Some(parse_account(record_class, account_data, undefined_sizeof))
    /\ UNCHANGED << record_class, undefined_sizeof, account_data >>

(* ------------------------- the adapters of Layout ---------------------- *)

\* The adapters of the fields of GROUP, MARGIN_ACCOUNT and AGGREGATOR, each
\* with the size of its subconstruct.
Adapters ==
    { [ class |-> "DecimalAdapter", size |-> DecimalAdapter_size ],
      [ class |-> "DecimalAdapter", size |-> 1 ],
      [ class |-> "FloatAdapter", size |-> FloatAdapter_size ],
      [ class |-> "PublicKeyAdapter", size |-> PublicKeyAdapter_size ],
      [ class |-> "DatetimeAdapter", size |-> DatetimeAdapter_size ] }

\* A Python object: its type and what it holds.  An int holds its digits to
\* the base 256, the highest first and not 0; a Decimal the digits of an int
\* and the number of bits behind the point; a datetime its timestamp.
Object(type, held, point) == [ type |-> type, value |-> held, point |-> point ]

reversed(sequence) ==
    [ i \in 1..Len(sequence) |-> sequence[Len(sequence) + 1 - i] ]

\* The int of bytes read highest first.
int_from_bytes(bytes) ==
    LET significant == { i \in 1..Len(bytes) : bytes[i] # 0 }
    IN  IF significant = { } THEN << >>
        ELSE SubSeq(bytes, CHOOSE i \in significant : \A j \in significant : i <= j,
                    Len(bytes))

\* construct.BytesInteger(size, swapped=True).parse: the bytes are swapped,
\* then read as an unsigned integer.
BytesInteger_parse(bytes) == Object("int", int_from_bytes(reversed(bytes)), 0)

\* construct.BytesInteger(size, swapped=True).build: an int that fits into
\* size bytes is written highest byte first, then swapped; anything else is
\* an IntegerError.
BytesInteger_build(obj, size) ==
    IF obj.type # "int" \/ Len(obj.value) > size THEN Raised("IntegerError")
    ELSE Returned(reversed([ i \in 1..(size - Len(obj.value)) |-> 0 ] \o obj.value))

\* construct.Bytes(size).build
Bytes_build(obj, size) ==
    IF obj.type # "bytes" \/ Len(obj.value) # size THEN Raised("StreamError")
    ELSE Returned(obj.value)

\* bytes(obj): the bytes of an object with __bytes__, a TypeError for a
\* Decimal and for a datetime.
python_bytes(obj) ==
    IF obj.type \in { "PublicKey", "bytes" } THEN Returned(Object("bytes", obj.value, 0))
    ELSE Raised("TypeError")

\* Whether one int is no larger than another.
RECURSIVE int_leq(_, _)
int_leq(a, b) ==
    IF Len(a) # Len(b) THEN Len(a) < Len(b)
    ELSE IF a = << >> THEN TRUE
    ELSE IF a[1] # b[1] THEN a[1] < b[1]
    ELSE int_leq(Tail(a), Tail(b))

\* The timestamp of the last second of the year 9999, the latest datetime.
max_timestamp == << 58, 255, 244, 65, 127 >>

\* _decode of the adapter of a field.
decode(adapter, obj) ==
    CASE adapter.class = "DecimalAdapter" -> Returned(Object("Decimal", obj.value, 0))
      [] adapter.class = "FloatAdapter" ->
            Returned(Object("Decimal", obj.value, (adapter.size * 8) \div 2))
      [] adapter.class = "PublicKeyAdapter" -> Returned(Object("PublicKey", obj.value, 0))
      [] adapter.class = "DatetimeAdapter" ->
            IF int_leq(obj.value, max_timestamp)
            THEN Returned(Object("datetime", obj.value, 0))
            ELSE Raised("ValueError")

\* _encode of the adapter of a field.
encode(adapter, obj) ==
    CASE adapter.class = "DecimalAdapter" ->
            IF obj.type = "Decimal" /\ obj.point = 0
            THEN Returned(Object("int", obj.value, 0))
            ELSE Raised("TypeError")
      [] adapter.class = "FloatAdapter" -> python_bytes(obj)
      [] adapter.class = "PublicKeyAdapter" -> python_bytes(obj)
      [] adapter.class = "DatetimeAdapter" -> python_bytes(obj)

\* construct.Adapter.parse: the subconstruct parses, _decode converts.
adapter_parse(adapter, bytes) ==
    IF adapter.class = "PublicKeyAdapter"
    THEN decode(adapter, Object("bytes", bytes, 0))
    ELSE decode(adapter, BytesInteger_parse(bytes))

\* construct.Adapter.build: _encode converts, the subconstruct builds.
adapter_build(adapter, obj) ==
    LET encoded == encode(adapter, obj)
    IN  IF encoded.kind = "raised" THEN encoded
        ELSE IF adapter.class = "PublicKeyAdapter"
        THEN Bytes_build(encoded.value, adapter.size)
        ELSE BytesInteger_build(encoded.value, adapter.size)

\* A field and its bytes: all 0 but for the two lowest bytes, the fifth and
\* the highest, which are 0, 1 or 255.
FieldInit ==
    /\ field_adapter \in Adapters
    /\ \E low, second, fifth, high \in { 0, 1, 255 } :
          field_bytes =
             [ i \in 1..field_adapter.size |->
                 CASE i = 1 -> low
                   [] i = 2 -> second
                   [] i = 5 -> fifth
                   [] i = field_adapter.size -> high
                   [] OTHER -> 0 ]
    /\ field_parsed = None
    /\ field_built = None

\* The field is parsed.
ParseField ==
    /\ field_adapter \in Adapters
    /\ field_parsed = None
    /\ field_parsed' = Some(adapter_parse(field_adapter, field_bytes))
    /\ UNCHANGED << field_adapter, field_bytes, field_built >>

\* The value parsed is built again.
BuildField ==
    /\ field_parsed # None
    /\ The(field_parsed).kind = "returned"
    /\ field_built = None
    /\ field_built' = Some(adapter_build(field_adapter, The(field_parsed).value))
    /\ UNCHANGED << field_adapter, field_bytes, field_parsed >>

\* No targets, no parse call and no trade in play.
TargetsParked == target_balances = << >>

ParserParked == parser_tokens = << >> /\ to_parse = << >> /\ parse_result = None

ExecutorParked ==
    /\ trade_call = [ side |-> "none", symbol |-> "none", quantity |-> 0 ]
    /\ executor_pc = "parked"
    /\ order_arguments = None
    /\ place_order_calls = << >>
    /\ open_orders = << >>
    /\ settle_calls = << >>
    /\ settlement_transaction_ids = None
    /\ executor_log = << >>
    /\ fill_result = None
    /\ execute_result = None

SheetsParked ==
    /\ sheet_group = TheGroup
    /\ sheet_prices = << >>
    /\ sheet_accounts = << >>
    /\ intrinsic_balance_sheets = << >>
    /\ sheet_properties = << >>
    /\ funnel = << >>
    /\ sheets_pc = "parked"

\* No call in play on the components modelled on their own.
ChangesParked == changes_before = << >> /\ changes_after = << >> /\ changes_result = None

LookupParked ==
    /\ lookup_helper = "none"
    /\ lookup_values = << >>
    /\ lookup_key = "none"
    /\ lookup_result = None

RecordParked ==
    /\ record_class = "none"
    /\ undefined_sizeof = 0
    /\ account_data = [ length |-> 0, decodes |-> TRUE ]
    /\ record_result = None

FieldParked ==
    /\ field_adapter = [ class |-> "none", size |-> 0 ]
    /\ field_bytes = << >>
    /\ field_parsed = None
    /\ field_built = None

\* No account read back from the chain yet.
ChainParked == drained = {}

\* No lookup, no parse of an account and no field in play.
DataParked == LookupParked /\ RecordParked /\ FieldParked /\ ChainParked

OthersParked ==
    /\ TargetsParked /\ ParserParked /\ ExecutorParked /\ SheetsParked /\ ChangesParked
    /\ DataParked

(* ---------------------------- specifications --------------------------- *)

Init ==
    /\ ProcessorInit /\ SubscriptionInit
    /\ RetrierParked /\ ConfirmationParked /\ LiquidatorParked /\ BalancerParked
    /\ OthersParked

\* The observer of the margin account subscription calls update_margin_accounts.
DeliverMarginAccounts ==
    /\ \E ripe_margin_accounts \in Snapshots : update_margin_accounts(ripe_margin_accounts)
    /\ UNCHANGED << subscription_vars, helper_vars >>

\* The observer of the price subscription calls update_prices; it hands over
\* no value while the handler runs.
DeliverPrices ==
    /\ \E token_prices \in PriceVectors : update_prices(token_prices)
    /\ UNCHANGED << subscription_vars, helper_vars >>

\* The steps of the update_prices call in flight.
TickStep ==
    \/ LoadGroup /\ UNCHANGED << subscription_vars, helper_vars >>
    \/ EvaluateNext /\ UNCHANGED << subscription_vars, helper_vars >>
    \/ FilterAccounts /\ UNCHANGED << subscription_vars, helper_vars >>
    \/ LiquidateIteration /\ UNCHANGED << subscription_vars, helper_vars >>
    \/ FinishTick /\ UNCHANGED << subscription_vars, helper_vars >>

Next ==
    \/ DeliverMarginAccounts
    \/ DeliverPrices
    \/ TickStep

\* The processor, fed snapshots and prices by its two observers.
Spec == Init /\ [][Next]_vars

\* The thread running update_prices keeps running until the call returns.
FairSpec == Spec /\ WF_vars(TickStep)

MainNext ==
    \/ MarginAccountsTick /\ UNCHANGED helper_vars
    \/ PricesTick /\ UNCHANGED helper_vars
    \/ TickStep

\* __main__: the processor behind its two subscriptions, whose fetches can fail.
MainSpec == Init /\ [][MainNext]_vars

RetrierSpecInit ==
    /\ ProcessorInit /\ SubscriptionInit
    /\ RetrierInit /\ ConfirmationParked /\ LiquidatorParked /\ BalancerParked
    /\ OthersParked

RetrierNext ==
    \/ RetrierAttempt
          /\ UNCHANGED << processor_vars, subscription_vars, confirmation_vars,
                          liquidator_vars, balancer_vars, other_vars >>
    \/ RetrierExhausted
          /\ UNCHANGED << processor_vars, subscription_vars, confirmation_vars,
                          liquidator_vars, balancer_vars, other_vars >>

\* One run of a Retrier.
RetrierSpec == RetrierSpecInit /\ [][RetrierNext]_vars

ConfirmationSpecInit ==
    /\ ProcessorInit /\ SubscriptionInit
    /\ RetrierParked /\ ConfirmationInit /\ LiquidatorParked /\ BalancerParked
    /\ OthersParked

ConfirmationNext ==
    \/ ConfirmationPoll
          /\ UNCHANGED << processor_vars, subscription_vars, retrier_vars,
                          liquidator_vars, balancer_vars, other_vars >>
    \/ ConfirmationTimeout
          /\ UNCHANGED << processor_vars, subscription_vars, retrier_vars,
                          liquidator_vars, balancer_vars, other_vars >>

\* One call of wait_for_confirmation.
ConfirmationSpec == ConfirmationSpecInit /\ [][ConfirmationNext]_vars

LiquidatorSpecInit ==
    /\ ProcessorInit /\ SubscriptionInit
    /\ RetrierParked /\ ConfirmationParked /\ LiquidatorInit /\ BalancerParked
    /\ OthersParked

\* The state beside the liquidator.
beside_liquidator ==
    << processor_vars, subscription_vars, retrier_vars, confirmation_vars,
       balancer_vars, other_vars >>

LiquidatorNext ==
    \/ ReportingBalancesBefore /\ UNCHANGED beside_liquidator
    \/ InnerLiquidate /\ UNCHANGED beside_liquidator
    \/ ReportingWait /\ UNCHANGED beside_liquidator
    \/ ReportingReload /\ UNCHANGED beside_liquidator
    \/ ReportingPublish /\ UNCHANGED beside_liquidator

\* One liquidate call on an account liquidator.
LiquidatorSpec == LiquidatorSpecInit /\ [][LiquidatorNext]_vars

BalancerSpecInit ==
    /\ ProcessorInit /\ SubscriptionInit
    /\ RetrierParked /\ ConfirmationParked /\ LiquidatorParked /\ BalancerInit
    /\ OthersParked

\* The state beside the wallet balancer.
beside_balancer ==
    << processor_vars, subscription_vars, retrier_vars, confirmation_vars,
       liquidator_vars, other_vars >>

BalancerNext ==
    \/ BalanceChanges /\ UNCHANGED beside_balancer
    \/ MakeChange /\ UNCHANGED beside_balancer
    \/ BalanceReturns /\ UNCHANGED beside_balancer

\* One balance call on a LiveWalletBalancer.
BalancerSpec == BalancerSpecInit /\ [][BalancerNext]_vars


\* The state beside the wallet balancer and its targets.
beside_targets ==
    << processor_vars, subscription_vars, retrier_vars, confirmation_vars,
       liquidator_vars, parser_vars, executor_vars, sheets_vars, changes_vars,
       data_vars >>

TargetsSpecInit ==
    /\ ProcessorInit /\ SubscriptionInit
    /\ RetrierParked /\ ConfirmationParked /\ LiquidatorParked /\ TargetsInit
    /\ ParserParked /\ ExecutorParked /\ SheetsParked /\ ChangesParked /\ DataParked

TargetsNext ==
    \/ ResolveTargets /\ UNCHANGED beside_targets
    \/ BalanceChanges /\ UNCHANGED << beside_targets, targets_vars >>
    \/ MakeChange /\ UNCHANGED << beside_targets, targets_vars >>
    \/ BalanceReturns /\ UNCHANGED << beside_targets, targets_vars >>

\* One balance call on a LiveWalletBalancer, from its unresolved targets.
TargetsSpec == TargetsSpecInit /\ [][TargetsNext]_vars

ParserSpecInit ==
    /\ ProcessorInit /\ SubscriptionInit
    /\ RetrierParked /\ ConfirmationParked /\ LiquidatorParked /\ BalancerParked
    /\ TargetsParked /\ ParserInit /\ ExecutorParked /\ SheetsParked /\ ChangesParked
    /\ DataParked

ParserNext ==
    Parse /\ UNCHANGED << processor_vars, subscription_vars, retrier_vars,
                          confirmation_vars, liquidator_vars, balancer_vars,
                          targets_vars, executor_vars, sheets_vars, changes_vars,
                          data_vars >>

\* One call of TargetBalanceParser.parse.
ParserSpec == ParserSpecInit /\ [][ParserNext]_vars

ExecutorSpecInit ==
    /\ ProcessorInit /\ SubscriptionInit
    /\ RetrierParked /\ ConfirmationParked /\ LiquidatorParked /\ BalancerParked
    /\ TargetsParked /\ ParserParked /\ ExecutorInit /\ SheetsParked /\ ChangesParked
    /\ DataParked

\* The state beside the trade executor.
beside_executor ==
    << processor_vars, subscription_vars, retrier_vars, confirmation_vars,
       liquidator_vars, balancer_vars, targets_vars, parser_vars, sheets_vars,
       changes_vars, data_vars >>

ExecutorNext ==
    \/ ExecutorPrepare /\ UNCHANGED beside_executor
    \/ PlaceOrderAttempt /\ UNCHANGED beside_executor
    \/ PlaceOrderExhausted /\ UNCHANGED beside_executor
    \/ WaitForOrderFill /\ UNCHANGED beside_executor
    \/ Settle /\ UNCHANGED beside_executor
    \/ WaitForSettlement /\ UNCHANGED beside_executor

\* One buy or sell call on a SerumImmediateTradeExecutor.
ExecutorSpec == ExecutorSpecInit /\ [][ExecutorNext]_vars

SheetsSpecInit ==
    /\ ProcessorInit /\ SubscriptionInit
    /\ RetrierParked /\ ConfirmationParked /\ LiquidatorParked /\ BalancerParked
    /\ TargetsParked /\ ParserParked /\ ExecutorParked /\ SheetsInit /\ ChangesParked
    /\ DataParked

\* The state beside the balance sheets.
beside_sheets ==
    << processor_vars, subscription_vars, retrier_vars, confirmation_vars,
       liquidator_vars, balancer_vars, targets_vars, parser_vars, executor_vars,
       changes_vars, data_vars >>

SheetsNext ==
    \/ EvaluateSheets /\ UNCHANGED beside_sheets
    \/ FilterSheets /\ UNCHANGED beside_sheets

\* The balance sheets of a list of margin accounts, and the filters on them.
SheetsSpec == SheetsSpecInit /\ [][SheetsNext]_vars

ChangesSpecInit ==
    /\ ProcessorInit /\ SubscriptionInit
    /\ RetrierParked /\ ConfirmationParked /\ LiquidatorParked /\ BalancerParked
    /\ TargetsParked /\ ParserParked /\ ExecutorParked /\ SheetsParked /\ ChangesInit
    /\ DataParked

ChangesNext ==
    Changes /\ UNCHANGED << processor_vars, subscription_vars, retrier_vars,
                            confirmation_vars, liquidator_vars, balancer_vars,
                            targets_vars, parser_vars, executor_vars, sheets_vars,
                            data_vars >>

\* One call of TokenValue.changes.
ChangesSpec == ChangesSpecInit /\ [][ChangesNext]_vars

\* The state beside the lookups and the layouts.
beside_data ==
    << processor_vars, subscription_vars, retrier_vars, confirmation_vars,
       liquidator_vars, balancer_vars, targets_vars, parser_vars, executor_vars,
       sheets_vars, changes_vars >>

\* Everything beside the lookups and the layouts, at rest.
BesideDataInit ==
    /\ ProcessorInit /\ SubscriptionInit
    /\ RetrierParked /\ ConfirmationParked /\ LiquidatorParked /\ BalancerParked
    /\ TargetsParked /\ ParserParked /\ ExecutorParked /\ SheetsParked /\ ChangesParked

LookupSpecInit ==
    BesideDataInit /\ LookupInit /\ RecordParked /\ FieldParked /\ ChainParked

LookupNext ==
    Lookup /\ UNCHANGED << beside_data, record_vars, field_vars, chain_vars >>

\* One call of a find_by_name or find_by_mint helper.
LookupSpec == LookupSpecInit /\ [][LookupNext]_vars

RecordSpecInit ==
    BesideDataInit /\ LookupParked /\ RecordInit /\ FieldParked /\ ChainParked

RecordNext ==
    ParseAccount /\ UNCHANGED << beside_data, lookup_vars, field_vars, chain_vars >>

\* One call of the parse method of an account class.
RecordSpec == RecordSpecInit /\ [][RecordNext]_vars

FieldSpecInit ==
    BesideDataInit /\ LookupParked /\ RecordParked /\ FieldInit /\ ChainParked

FieldNext ==
    \/ ParseField /\ UNCHANGED << beside_data, lookup_vars, record_vars, chain_vars >>
    \/ BuildField /\ UNCHANGED << beside_data, lookup_vars, record_vars, chain_vars >>

\* One field of a layout, parsed and built again.
FieldSpec == FieldSpecInit /\ [][FieldNext]_vars

\* What the processor knows of the chain after an iteration of _liquidate_all:
\* the account MarginAccount.load returned, if it returned one, is the latest
\* state of its address.
read_back(seen, iteration) ==
    IF iteration.reload = None
    THEN seen
    ELSE LET updated_mam == The(iteration.reload)
             address == updated_mam.margin_account.address
         IN  IF is_worthwhile(updated_mam)
             THEN seen \ { address }
             ELSE seen \cup { address }

\* The state beside the processor and the chain.
beside_chain ==
    << subscription_vars, retrier_vars, confirmation_vars, liquidator_vars,
       balancer_vars, targets_vars, parser_vars, executor_vars, sheets_vars,
       changes_vars, lookup_vars, record_vars, field_vars >>

\* An iteration of _liquidate_all, and what its reload found on chain.
ReadBackIteration ==
    /\ LiquidateIteration
    /\ drained' = read_back(drained, The(last_iteration'))
    /\ UNCHANGED beside_chain

ChainNext ==
    \/ DeliverMarginAccounts
    \/ DeliverPrices
    \/ LoadGroup /\ UNCHANGED << beside_chain, chain_vars >>
    \/ EvaluateNext /\ UNCHANGED << beside_chain, chain_vars >>
    \/ FilterAccounts /\ UNCHANGED << beside_chain, chain_vars >>
    \/ ReadBackIteration
    \/ FinishTick /\ UNCHANGED << beside_chain, chain_vars >>

\* The processor over several ticks, with what its reloads found on chain.
ChainSpec == Init /\ [][ChainNext]_vars

(* -------------------------------- claims ------------------------------- *)

Addresses(list) == { list[i].margin_account.address : i \in 1..Len(list) }

\* The list update_prices hands to _liquidate_all, once `updated` is complete.
to_liquidate == worthwhile(above_water(liquidatable(updated, The(group))))

\* A step that is an iteration of _liquidate_all: while the loop has work, any
\* step that is not a delivery to the processor or a failed fetch is one.
IterationStep ==
    /\ pc = "liquidate_all"
    /\ to_process # << >>
    /\ last_iteration' # None
    /\ UNCHANGED << ripe_accounts, subscription_vars, helper_vars >>

\* C1: _liquidate_all terminates on every input list, whatever liquidate does
\* and whatever the reloads report: once the loop runs, to_process becomes empty.
C1_LoopTerminates == (pc = "liquidate_all") ~> (to_process = << >>)

\* C2: after an attempt that did not raise, the reloaded account is put back on
\* to_process exactly when its residual assets - liabilities is strictly
\* greater than worthwhile_threshold.
C2_PutBackIffAboveThreshold ==
    [][ (IterationStep /\ The(last_iteration').reload # None)
        => LET updated_mam == The(The(last_iteration').reload)
           IN  Contains(to_process', updated_mam)
                  <=> (Net(updated_mam) > worthwhile_threshold) ]_vars

\* C3: the account passed to liquidate is an entry of to_process and no entry
\* of to_process has a larger assets - liabilities.
C3_HighestIsAttempted ==
    [][ IterationStep
        => LET highest == The(last_iteration').highest
           IN  /\ Contains(to_process, highest)
               /\ \A i \in 1..Len(to_process) : Net(highest) >= Net(to_process[i]) ]_vars

\* An attempt on the second account of the list while the first, worth less,
\* is still waiting.
C3_Witness ==
    /\ pc = "liquidate_all"
    /\ last_iteration # None
    /\ The(last_iteration).highest.margin_account.address = 2
    /\ attempted = { 2 }
    /\ \E i \in 1..Len(to_process) :
          /\ to_process[i].margin_account.address = 1
          /\ Net(to_process[i]) < Net(The(last_iteration).highest)

\* C4: no exception leaves _liquidate_all; no account of the input list is
\* lost before it has been passed to liquidate, so that all of them have been
\* when the loop ends; and every iteration removes the head from to_process,
\* adding at most the reloaded account.
C4_ErrorsAreContained ==
    /\ [](/\ ~ escaped
          /\ pc = "liquidate_all"
                => \A a \in Addresses(to_liquidate) :
                      a \in attempted \/ a \in Addresses(to_process))
    /\ [][ IterationStep
           => LET it == The(last_iteration')
                  rest == Remove(to_process, it.highest)
              IN  /\ pc' = "liquidate_all"
                  /\ \/ to_process' = rest
                     \/ /\ it.reload # None
                        /\ to_process' = Append(rest, The(it.reload)) ]_vars

\* An attempt raised while another account of the input list was still to be
\* attempted.
C4_Witness ==
    /\ pc = "liquidate_all"
    /\ last_iteration # None
    /\ The(last_iteration).liquidate = "raised"
    /\ Addresses(to_process) \ attempted # {}

Ratio(margin_account) ==
    collateral_ratio(get_balance_sheet_totals(margin_account, The(group), prices))

\* C5: an address reaches the liquidation loop only if the account the
\* snapshot holds there has, at the prices of the tick, a collateral ratio of
\* at most the maintenance ratio and above 1, and a net value above
\* worthwhile_threshold; healthy and under-water accounts are never attempted.
C5_OnlyWorthwhileAccounts ==
    pc = "liquidate_all"
        => \A a \in attempted \cup Addresses(to_process) :
              LET margin_account == iter_list[a]
                  sheet == get_balance_sheet_totals(margin_account, The(group), prices)
              IN  /\ Ratio(margin_account)[1] * The(group).maint_coll_ratio[2]
                        <= The(group).maint_coll_ratio[1] * Ratio(margin_account)[2]
                  /\ Ratio(margin_account)[1] > Ratio(margin_account)[2]
                  /\ assets(sheet) - sheet.liabilities > worthwhile_threshold
                  /\ margin_account # MarginAccount(a, Healthy)
                  /\ margin_account # MarginAccount(a, UnderWater)

\* A tick that attempted the second account of a snapshot whose first account
\* is under water.
C5_Witness ==
    /\ pc = "liquidate_all"
    /\ Len(iter_list) = 2
    /\ iter_list[1] = MarginAccount(1, UnderWater)
    /\ attempted = { 2 }

\* C6: as long as ripe_accounts is None, no update_prices call gets past its
\* None check: no group is loaded, no account is evaluated or attempted and
\* the wallet balancer is not called.
C6_NothingBeforeFirstSnapshot ==
    ripe_accounts = None
        => /\ pc = "idle"
           /\ group = None
           /\ updated = << >>
           /\ to_process = << >>
           /\ attempted = {}
           /\ last_iteration = None

\* update_prices was called before any snapshot and skipped the tick.
C6_Witness == ripe_accounts = None /\ tick_log = "skipping"

\* C7 as stated: a snapshot delivered while a tick is in flight is used only
\* by later ticks, never by the tick in flight.
C7_NewSnapshotOnlyForLaterTicks ==
    pc \in { "evaluate", "liquidate_all" } => ~ replaced_before_loop

\* C7 as amended: the tick evaluates and liquidates the accounts of the list
\* self.ripe_accounts referred to when its for loop began, which is the latest
\* snapshot delivered up to then; a snapshot delivered after that changes
\* nothing the tick evaluates or liquidates.
C7_TickKeepsItsList ==
    /\ [](pc \in { "evaluate", "liquidate_all" }
            => /\ Len(updated) <= Len(iter_list)
               /\ \A i \in 1..Len(updated) : updated[i].margin_account = iter_list[i]
               /\ attempted \cup Addresses(to_process) \subseteq 1..Len(iter_list))
    /\ [][ /\ pc = "load_group" /\ pc' = "evaluate" => iter_list' = The(ripe_accounts)
           /\ (pc \in { "evaluate", "liquidate_all" } /\ ripe_accounts' # ripe_accounts)
                 => UNCHANGED << iter_list, updated, to_process, attempted >> ]_vars

\* A tick that has evaluated a whole list and attempted an account of it after
\* another snapshot had replaced that list.
C7_Witness ==
    /\ pc = "liquidate_all"
    /\ ~ replaced_before_loop
    /\ The(ripe_accounts) # iter_list
    /\ Len(updated) = 2
    /\ attempted # {}

\* C9: after a fetch of a subscription failed and its error was logged, the
\* subscription is still there to fetch and deliver on later ticks.
C9_SubscriptionSurvivesError ==
    /\ "prices" \in logged_errors => price_subscription = "subscribed"
    /\ "margin accounts" \in logged_errors => margin_account_subscription = "subscribed"

\* C10: run calls func at least once and at most `retries` times; the first
\* call that does not raise is the last call, and run returns its value.
C10_StopsAtFirstSuccess ==
    /\ Len(calls) <= retries
    /\ run_result # None => Len(calls) >= 1
    /\ \A k \in 1..Len(calls) :
          calls[k].kind = "returned"
              => /\ k = Len(calls)
                 /\ \A j \in 1..(k - 1) : calls[j].kind = "raised"
                 /\ run_result = Some(calls[k])

\* The third call is the first that returns, with retries to spare.
C10_Witness ==
    /\ run_result # None
    /\ The(run_result).kind = "returned"
    /\ Len(calls) = 3
    /\ retries > 3

\* C11: when every attempt of run raised, func has been called exactly
\* `retries` times and run raises the exception of the last attempt.
C11_RaisesLastException ==
    (run_result # None /\ The(run_result).kind = "raised")
        => /\ Len(calls) = retries
           /\ \A k \in 1..Len(calls) : calls[k].kind = "raised"
           /\ The(run_result).value = calls[retries].value

\* A run of at least three attempts that all raised, the last with another
\* exception than the first.
C11_Witness ==
    /\ run_result # None
    /\ The(run_result).kind = "raised"
    /\ retries >= 3
    /\ calls[1].value # calls[retries].value

\* C12: wait_for_confirmation makes at most max_wait_in_seconds polls, returns
\* right after the first poll that finds the transaction confirmed, and when
\* the polls run out without a confirmation it returns without raising.
C12_PollsThenReturns ==
    /\ Len(poll_log) <= max_wait_in_seconds
    /\ \A k \in 1..Len(poll_log) :
          poll_log[k] = "confirmed"
              => /\ k = Len(poll_log)
                 /\ confirmation_result = Some(Returned("confirmed"))
    /\ (/\ confirmation_result # None
        /\ \A k \in 1..Len(poll_log) : poll_log[k] = "not confirmed")
          => /\ Len(poll_log) = max_wait_in_seconds
             /\ The(confirmation_result).kind = "returned"


ReturnedNone(result) ==
    The(result).kind = "returned" /\ The(result).value = None

ReturnedSignature(result) ==
    The(result).kind = "returned" /\ The(result).value # None

\* C13: liquidate of ActualAccountLiquidator sends one transaction holding the
\* prepared instructions and returns the signature of the response when there
\* is an instruction, raises when the response carries an error, and sends
\* nothing and returns None when there is no instruction; liquidate of
\* NullAccountLiquidator sends nothing and returns None.
C13_OneTransactionOrNone ==
    inner_result # None
        => LET instruction_builders ==
                  prepare_instructions(liquidator, margin_orders, liquidate_instruction)
           IN  /\ liquidator = "NullAccountLiquidator"
                     => sent = << >> /\ ReturnedNone(inner_result)
               /\ (liquidator # "NullAccountLiquidator" /\ instruction_builders = << >>)
                     => sent = << >> /\ ReturnedNone(inner_result)
               /\ (liquidator # "NullAccountLiquidator" /\ instruction_builders # << >>)
                     => /\ Len(sent) = 1
                        /\ sent[1].instructions = instruction_builders
                        /\ sent[1].response.kind = "result"
                              => /\ ReturnedSignature(inner_result)
                                 /\ The(inner_result).value = Some(sent[1].response.value)
                        /\ sent[1].response.kind = "error"
                              => The(inner_result).kind = "raised"

\* An ActualAccountLiquidator sent its liquidate instruction and the response
\* carried a string error.
C13_Witness ==
    /\ liquidator = "ActualAccountLiquidator"
    /\ inner_result # None
    /\ Len(sent) = 1
    /\ sent[1].response.kind = "error"
    /\ sent[1].response.value = "str"

\* C14: in the instructions ForceCancelOrdersAccountLiquidator prepares, every
\* force-cancel instruction precedes the liquidate instruction, force-cancel
\* instructions come in ascending market order, only markets with an
\* open-orders account and resting orders of the owner have one, and all of
\* them are sent in one transaction.
C14_ForceCancelFirst ==
    liquidator = "ForceCancelOrdersAccountLiquidator"
        => LET all == prepare_instructions(liquidator, margin_orders, liquidate_instruction)
               cancels == { i \in 1..Len(all) : all[i].kind = "ForceCancelOrders" }
           IN  /\ \A i \in cancels, j \in 1..Len(all) :
                     all[j].kind = "Liquidate" => i < j
               /\ \A i \in cancels, j \in cancels : i < j => all[i].market <= all[j].market
               /\ \A i \in cancels :
                     /\ margin_orders[all[i].market] # None
                     /\ The(margin_orders[all[i].market]) > 0
               /\ \A market \in 1..NUM_MARKETS :
                     (margin_orders[market] # None /\ The(margin_orders[market]) > 0)
                         => \E i \in cancels : all[i].market = market
               /\ Len(sent) <= 1
               /\ (inner_result # None /\ all # << >>)
                     => Len(sent) = 1 /\ sent[1].instructions = all

\* One transaction with force-cancel instructions for both markets, two of
\* them for the first, and the liquidate instruction.
C14_Witness ==
    /\ liquidator = "ForceCancelOrdersAccountLiquidator"
    /\ Len(sent) = 1
    /\ Len(sent[1].instructions) = 4
    /\ sent[1].instructions[1].market = 1
    /\ sent[1].instructions[2].market = 1
    /\ sent[1].instructions[3].market = 2
    /\ sent[1].instructions[4].kind = "Liquidate"

\* C15 as stated: a reporting liquidator has published exactly one event when
\* its call ends after the inner liquidator returned a signature, and none
\* when the inner liquidator returned None or raised; it returns the inner
\* result.
C15_OneEventPerSignature ==
    (reporting /\ liquidate_result # None /\ inner_result # None)
        => /\ ReturnedSignature(inner_result)
                 => Len(published) = 1 /\ ReturnedSignature(liquidate_result)
           /\ ~ ReturnedSignature(inner_result) => published = << >>

\* C15 as amended: at most one event is published, and one is only after the
\* balances were fetched, the inner liquidator returned a signature, the wait
\* for the confirmation returned and the post-state was reloaded, in that
\* order; a call that returns returns the inner result, with one event for a
\* signature and none for None; a call that raises has published nothing.
C15_EventAfterConfirmationAndReload ==
    reporting
        => /\ Len(published) <= 1
           /\ published # << >>
                 => /\ journal = << "balances before", "inner liquidate",
                                    "wait for confirmation", "reload", "publish" >>
                    /\ ReturnedSignature(inner_result)
                    /\ published[1] = LiquidationEvent(The(The(inner_result).value))
           /\ inner_result # None => journal[1] = "balances before"
           /\ (liquidate_result # None /\ The(liquidate_result).kind = "returned")
                 => /\ inner_result # None
                    /\ The(inner_result).kind = "returned"
                    /\ The(liquidate_result).value = The(inner_result).value
                    /\ Len(published) = IF ReturnedSignature(inner_result) THEN 1 ELSE 0
           /\ (liquidate_result # None /\ The(liquidate_result).kind = "raised")
                 => published = << >>

\* A reporting liquidator returned the signature after it published the event.
C15_Witness ==
    /\ reporting
    /\ liquidate_result # None
    /\ ReturnedSignature(liquidate_result)
    /\ Len(published) = 1

\* C16: EventSource.publish never raises, whatever exception (derived from
\* Exception) a subscriber raises while it handles the event.
C16_PublishNeverRaises ==
    publish_result # None
        => /\ The(publish_result).kind = "returned"
           /\ liquidate_result # None
           /\ The(liquidate_result).kind = "returned"

\* A subscriber raised while handling the event and publish returned.
C16_Witness ==
    /\ subscriber_outcome # None
    /\ The(subscriber_outcome).kind = "raised"
    /\ publish_result # None
    /\ The(publish_result).kind = "returned"

\* C17: in an iteration of _liquidate_all the wallet balancer is called only
\* when liquidate returned a signature, not when it raised or returned None.
C17_BalanceOnlyAfterLiquidation ==
    [][ IterationStep
        => (The(last_iteration').balance # "not called"
               => The(last_iteration').liquidate = "signature") ]_vars

\* What a tick works with, apart from ripe_accounts.
tick_state ==
    << pc, prices, group, iter_list, updated, to_process, attempted, last_iteration,
       escaped, tick_log >>

\* C18: a step that changes ripe_accounts puts a whole delivered list in its
\* place and changes nothing else of the processor: no liquidate call, no
\* balance call; a step of update_prices or _liquidate_all leaves
\* ripe_accounts and the list it refers to as they are.
C18_OnlyUpdateReplacesSnapshot ==
    [][ /\ ripe_accounts' # ripe_accounts
            => /\ ripe_accounts' \in { Some(snapshot) : snapshot \in Snapshots }
               /\ UNCHANGED tick_state
        /\ tick_state' # tick_state => UNCHANGED ripe_accounts ]_vars

\* The snapshot was replaced by an empty list while _liquidate_all had an
\* account of the previous one to attempt.
C18_Witness ==
    /\ ripe_accounts = Some(<< >>)
    /\ pc = "liquidate_all"
    /\ to_process # << >>
    /\ Len(iter_list) = 2

\* How many entries of the list equal x.
Count(list, x) == Cardinality({ i \in 1..Len(list) : list[i] = x })

\* C19: sort_changes_for_trades returns the same changes with every negative
\* one before every positive one, and _make_changes trades in that order:
\* sell(symbol, |change|) for a negative change and buy(symbol, |change|) for a
\* positive one, every sell before any buy.
C19_SellsBeforeBuys ==
    balancer_pc \in { "make changes", "done" }
        => /\ Len(sorted_changes) = Len(filtered_changes)
           /\ \A i \in 1..Len(filtered_changes) :
                 Count(sorted_changes, filtered_changes[i])
                     = Count(filtered_changes, filtered_changes[i])
           /\ \A i \in 1..Len(sorted_changes), j \in 1..Len(sorted_changes) :
                 (sorted_changes[i].value < 0 /\ sorted_changes[j].value > 0) => i < j
           /\ Len(trades) <= Len(sorted_changes)
           /\ \A k \in 1..Len(trades) :
                 /\ trades[k].symbol = sorted_changes[k].token
                 /\ trades[k].quantity = Abs(sorted_changes[k].value)
                 /\ sorted_changes[k].value < 0 => trades[k].side = "sell"
                 /\ sorted_changes[k].value > 0 => trades[k].side = "buy"
           /\ \A i \in 1..Len(trades), j \in 1..Len(trades) :
                 (trades[i].side = "sell" /\ trades[j].side = "buy") => i < j
           /\ (balance_result # None /\ The(balance_result).kind = "returned")
                 => Len(trades) = Len(sorted_changes)

\* ETH is to be bought and BTC to be sold: the sale of BTC was made first.
C19_Witness ==
    /\ balance_result # None
    /\ Len(filtered_changes) = 2
    /\ filtered_changes[1].token = "ETH"
    /\ filtered_changes[1].value > 0
    /\ filtered_changes[2].value < 0
    /\ Len(trades) = 2
    /\ trades[1] = [ side |-> "sell", symbol |-> "BTC", quantity |-> 2 ]

\* The price of a token and the value of the wallet, from the inputs of balance.
PriceOf(token) ==
    balancer_prices[CHOOSE i \in 1..Len(balancer_prices) :
                       balancer_prices[i].token = token].value

total_value ==
    current_balances[1].value * PriceOf(current_balances[1].token)
        + current_balances[2].value * PriceOf(current_balances[2].token)
        + current_balances[3].value * PriceOf(current_balances[3].token)

\* C20: a change survives the filter exactly when |change * price| is strictly
\* greater than action_threshold * total_value; a change worth exactly the
\* threshold is dropped; when no change survives no trade is made.
C20_FilterIsStrict ==
    balancer_pc \in { "make changes", "done" }
        => /\ \A i \in 1..Len(balance_changes) :
                 LET change == balance_changes[i]
                     worth == Abs(change.value * PriceOf(change.token))
                 IN  (\E k \in 1..Len(filtered_changes) : filtered_changes[k] = change)
                        <=> worth * action_threshold[2] > action_threshold[1] * total_value
           /\ Len(filtered_changes) <= Len(balance_changes)
           /\ filtered_changes = << >> => trades = << >>

\* A change of ETH worth exactly the threshold was dropped while the change of
\* BTC, worth more, was traded.
C20_Witness ==
    /\ balancer_pc = "done"
    /\ total_value > 0
    /\ Abs(balance_changes[1].value * PriceOf("ETH")) * action_threshold[2]
          = action_threshold[1] * total_value
    /\ Len(filtered_changes) = 1
    /\ Len(trades) = 1
    /\ trades[1].symbol = "BTC"

\* The value of the planned changes at the prices of the balance call.
value_of_changes ==
    SumFrom([ i \in 1..Len(balance_changes) |->
                balance_changes[i].value * PriceOf(balance_changes[i].token) ],
            1, Len(balance_changes))

\* The prices of the tokens that have a target, added up: twice the room the
\* rounding of the targets to whole units leaves.
prices_of_targets ==
    SumFrom([ i \in 1..Len(target_balances) |-> PriceOf(target_balances[i].token) ],
            1, Len(target_balances))

\* Every token of the wallet has one target, each a percentage, and the
\* percentages add up to 100.
percentages_cover_wallet ==
    /\ Len(target_balances) = Len(current_balances)
    /\ \A j \in 1..Len(current_balances) :
          Cardinality({ i \in 1..Len(target_balances) :
                          target_balances[i].token = current_balances[j].token }) = 1
    /\ \A i \in 1..Len(target_balances) :
          target_balances[i].class = "PercentageTargetBalance"
    /\ SumFrom([ i \in 1..Len(target_balances) |-> target_balances[i].target_fraction[1] ],
               1, Len(target_balances)) = 100

\* C21 as stated: for any targets and balances the planned changes are worth
\* nothing in total, up to the rounding of each target.
C21_ChangesPreserveValue ==
    balancer_pc \in { "make changes", "done" }
        => 2 * Abs(value_of_changes) <= prices_of_targets

\* C21: when the targets are percentages of every token of the wallet that add
\* up to 100, the planned changes are worth nothing in total, up to the
\* rounding of each target to a whole unit.
C21_FullPercentagesPreserveValue ==
    (balancer_pc \in { "make changes", "done" } /\ percentages_cover_wallet)
        => 2 * Abs(value_of_changes) <= prices_of_targets

\* Half of a wallet of ETH and USDT is to go into BTC: changes were planned for
\* all three tokens.
C21_Witness ==
    /\ balancer_pc \in { "make changes", "done" }
    /\ percentages_cover_wallet
    /\ target_balances[2].target_fraction[1] = 50
    /\ total_value > 0
    /\ balance_changes[1].value < 0
    /\ balance_changes[2].value > 0

\* The balance the wallet holds of a token, from the inputs of balance.
HoldingOf(token) ==
    current_balances[CHOOSE j \in 1..Len(current_balances) :
                        current_balances[j].token = token].value

\* C22: a Fixed target resolves to its literal amount whatever the price and
\* the total value, a Percentage target to (pct / 100) * total value / price
\* (to the nearest unit), and the required changes are one per target, in the
\* order of the targets, each the resolved target less the current balance of
\* its token.
C22_TargetsResolveAndChange ==
    /\ balancer_pc \in { "start", "make changes", "done" }
          => /\ Len(resolved_targets) = Len(target_balances)
             /\ \A i \in 1..Len(target_balances) :
                   LET target == target_balances[i]
                       resolved == resolved_targets[i]
                   IN  /\ resolved.token = target.token
                       /\ target.class = "FixedTargetBalance"
                             => resolved.value = target.value
                       /\ target.class = "PercentageTargetBalance"
                             => 2 * Abs(resolved.value * 100 * PriceOf(target.token)
                                          - target.target_fraction[1] * total_value)
                                    <= 100 * PriceOf(target.token)
    /\ balancer_pc \in { "make changes", "done" }
          => /\ Len(balance_changes) = Len(target_balances)
             /\ \A i \in 1..Len(target_balances) :
                   /\ balance_changes[i].token = target_balances[i].token
                   /\ balance_changes[i].value
                         = resolved_targets[i].value - HoldingOf(target_balances[i].token)

\* The test of WalletBalancer.py: 20% ETH and 0.05 BTC at a total of 10000 with
\* 0.6 ETH and 0.01 BTC give 0.5 ETH and 0.05 BTC, a change of -0.1 ETH and one
\* of +0.04 BTC (in hundredths of a token).
C22_Witness ==
    /\ TestTargets
    /\ total_value = 1000000
    /\ balancer_pc \in { "make changes", "done" }
    /\ resolved_targets = << TokenValue("ETH", 50), TokenValue("BTC", 5) >>
    /\ balance_changes = << TokenValue("ETH", 0 - 10), TokenValue("BTC", 4) >>

\* The string is TOKEN:NUMBER or TOKEN:NUMBER% for the token E, a NUMBER being
\* what Decimal takes for one: a single colon, E or e before it, and after it
\* a number, or a number and a % sign that ends the string.
grammatical(text) ==
    \E k \in 1..Len(text) :
        /\ text[k] = ":"
        /\ \A j \in 1..Len(text) : text[j] = ":" => j = k
        /\ SubSeq(text, 1, k - 1) \in { << "E" >>, << "e" >> }
        /\ \/ to_decimal(SubSeq(text, k + 1, Len(text))) # None
           \/ /\ text[Len(text)] = "%"
              /\ to_decimal(SubSeq(text, k + 1, Len(text) - 1)) # None

\* C23: parse returns a target exactly for the strings TOKEN:NUMBER (a Fixed
\* target) and TOKEN:NUMBER% (a Percentage target) of a known token, and raises
\* for every other string: no colon or several, an unknown token, a value that
\* is no number, several % signs, text after the % sign.
C23_ParserGrammar ==
    parse_result # None
        => /\ The(parse_result).kind = "returned" <=> grammatical(to_parse)
           /\ The(parse_result).kind = "returned"
                 => The(parse_result).value.class =
                        IF to_parse[Len(to_parse)] = "%"
                        THEN "PercentageTargetBalance"
                        ELSE "FixedTargetBalance"

IsPrefix(short, long) == Len(short) <= Len(long) /\ short = SubSeq(long, 1, Len(short))

Logged(step) == \E k \in 1..Len(executor_log) : executor_log[k] = step

\* market.place_order has returned a response that holds a transaction id.
order_placed ==
    /\ place_order_calls # << >>
    /\ place_order_calls[Len(place_order_calls)].outcome.kind = "result"

\* C24: a buy or sell takes its steps in the order place the order, wait for
\* the fill, settle, wait for the settlement; the wait for the fill and settle
\* are started only after the placement has returned a transaction id; when the
\* placement fails, or nothing is placed for want of a market, a price or a
\* source token account, there is no wait for a fill and no settle; a call
\* that returns has taken all four steps.
C24_PlaceWaitSettleInOrder ==
    /\ IsPrefix(executor_log, ExecuteSteps)
    /\ (Logged("wait for order fill") \/ Logged("settle") \/ settle_calls # << >>)
          => order_placed
    /\ Logged("wait for settlement") => settlement_transaction_ids # None
    /\ (executor_pc = "done" /\ ~ order_placed)
          => /\ ~ Logged("wait for order fill")
             /\ ~ Logged("settle")
             /\ settle_calls = << >>
             /\ The(execute_result).kind = "raised"
    /\ (execute_result # None /\ The(execute_result).kind = "returned")
          => executor_log = ExecuteSteps

\* A sale went through all four steps, its order placed at the second attempt
\* and one account settled.
C24_Witness ==
    /\ execute_result = Some(Returned("Order execution complete"))
    /\ trade_call.side = "SELL"
    /\ Len(place_order_calls) = 2
    /\ Len(settle_calls) = 1
    /\ executor_log = ExecuteSteps

\* C25: market.place_order is called at most 5 times for a trade, always with
\* the same arguments; a call that raises is followed by another as long as
\* fewer than 5 were made, no call follows one that returned, and after 5 calls
\* that raised the exception of the last one leaves buy or sell.
C25_PlaceOrderRetriedFiveTimes ==
    /\ Len(place_order_calls) <= 5
    /\ \A i \in 1..Len(place_order_calls) :
          /\ place_order_calls[i].arguments = The(order_arguments)
          /\ i < Len(place_order_calls) => place_order_calls[i].outcome.kind = "raised"
    /\ ( /\ place_order_calls # << >>
         /\ place_order_calls[Len(place_order_calls)].outcome.kind = "raised" )
          => IF Len(place_order_calls) < 5
             THEN executor_pc = "place order" /\ execute_result = None
             ELSE executor_pc = "done"
                     => execute_result =
                           Some(Raised(place_order_calls[5].outcome.value))

\* Five calls raised, the first e2 and the last e1, and e1 left the trade.
C25_Witness ==
    /\ Len(place_order_calls) = 5
    /\ place_order_calls[1].outcome = [ kind |-> "raised", value |-> "e2" ]
    /\ place_order_calls[5].outcome = [ kind |-> "raised", value |-> "e1" ]
    /\ place_order_calls[5].arguments.client_id = 2
    /\ execute_result = Some(Raised("e1"))

\* C26: settle calls settle_funds once for every open-orders account with a
\* free base or quote amount, in the order of the accounts, and for no account
\* with both at zero; the list it returns holds the transaction ids of these
\* calls, in the same order.
C26_SettlesAccountsWithFreeFunds ==
    /\ \A k \in 1..Len(settle_calls) :
          LET account == open_orders[settle_calls[k].account]
          IN  /\ account.base_token_free > 0 \/ account.quote_token_free > 0
              /\ \A j \in 1..(k - 1) : settle_calls[j].account < settle_calls[k].account
    /\ settlement_transaction_ids # None
          => /\ \A i \in 1..Len(open_orders) :
                   (open_orders[i].base_token_free > 0 \/ open_orders[i].quote_token_free > 0)
                      <=> \E k \in 1..Len(settle_calls) : settle_calls[k].account = i
             /\ Len(The(settlement_transaction_ids)) = Len(settle_calls)
             /\ \A k \in 1..Len(settle_calls) :
                   /\ settle_calls[k].outcome.kind = "result"
                   /\ The(settlement_transaction_ids)[k] = settle_calls[k].outcome.value

\* Of two accounts the first had nothing free and the second a free quote
\* amount: one transaction, for the second.
C26_Witness ==
    /\ settlement_transaction_ids = Some(<< "signature 2" >>)
    /\ Len(open_orders) = 2
    /\ open_orders[1] = [ base_token_free |-> 0, quote_token_free |-> 0 ]
    /\ open_orders[2] = [ base_token_free |-> 0, quote_token_free |-> 1 ]
    /\ Len(settle_calls) = 1
    /\ settle_calls[1].account = 2

\* The elements of short are elements of long, in the order they have there.
IsSubsequence(short, long) ==
    \E place \in [ 1..Len(short) -> 1..Len(long) ] :
        /\ \A k \in 1..Len(short) : short[k] = long[place[k]]
        /\ \A j \in 1..Len(short), k \in 1..Len(short) : j < k => place[j] < place[k]

\* C27: the lists of the filters of update_prices are nested, worthwhile in
\* above_water in liquidatable in the evaluated accounts, and each keeps its
\* accounts in the order they had in the list before.
C27_FunnelIsNested ==
    sheets_pc = "filtered"
        => /\ IsSubsequence(funnel[4], funnel[3])
           /\ IsSubsequence(funnel[3], funnel[2])
           /\ IsSubsequence(funnel[2], funnel[1])
           /\ Len(funnel[1]) = Len(sheet_accounts)

\* Of three liquidatable accounts two are above water and one of these is
\* worthwhile, the second of the list.
C27_Witness ==
    /\ sheets_pc = "filtered"
    /\ Len(funnel[1]) = 3
    /\ Len(funnel[2]) = 3
    /\ Len(funnel[3]) = 2
    /\ Len(funnel[4]) = 1
    /\ funnel[4][1].margin_account.address = 2

\* C28: of every balance sheet the assets are the settled and the unsettled
\* assets together, the value is the assets less the liabilities, and the
\* collateral ratio is assets / liabilities when there are liabilities and 0
\* when there are none.
C28_BalanceSheetTotals ==
    \A a \in 1..Len(sheet_properties) : \A i \in 1..Len(sheet_properties[a]) :
        LET read == sheet_properties[a][i]
            sheet == read.sheet
        IN  /\ read.assets = sheet.settled_assets + sheet.unsettled_assets
            /\ read.value = sheet.settled_assets + sheet.unsettled_assets - sheet.liabilities
            /\ read.collateral_ratio[2] # 0
            /\ sheet.liabilities > 0
                  => read.collateral_ratio[1] * sheet.liabilities
                        = (sheet.settled_assets + sheet.unsettled_assets)
                              * read.collateral_ratio[2]
            /\ sheet.liabilities = 0 => read.collateral_ratio[1] = 0

\* An account with assets and no liabilities in one token, and liabilities in
\* another: a ratio of 0 for the first sheet.
C28_Witness ==
    /\ sheets_pc = "evaluated"
    /\ Len(sheet_properties) = 1
    /\ sheet_properties[1][1].sheet.liabilities = 0
    /\ sheet_properties[1][1].assets = 5
    /\ sheet_properties[1][1].collateral_ratio[1] = 0
    /\ sheet_properties[1][2].sheet.liabilities = 3
    /\ sheet_properties[1][2].collateral_ratio = << 3, 3 >>

\* C29: get_intrinsic_balance_sheets returns a sheet per token, its settled
\* assets index.deposit * deposits and its liabilities index.borrow * borrows;
\* the unsettled assets of a base token are the base_token_total of its market
\* and those of the quote token the quote_token_total of all markets together,
\* a market without an open-orders account counting for nothing.
C29_IntrinsicSheets ==
    \A a \in 1..Len(intrinsic_balance_sheets) :
        LET account == sheet_accounts[a]
            sheets == intrinsic_balance_sheets[a]
            base(j) == IF account.open_orders_accounts[j] = None THEN 0
                       ELSE The(account.open_orders_accounts[j]).base_token_total
            quote(j) == IF account.open_orders_accounts[j] = None THEN 0
                        ELSE The(account.open_orders_accounts[j]).quote_token_total
        IN  /\ Len(sheets) = 3
            /\ \A i \in 1..3 :
                  /\ sheets[i].settled_assets
                        = sheet_group.index_deposit[i] * account.deposits[i]
                  /\ sheets[i].liabilities = sheet_group.index_borrow[i] * account.borrows[i]
            /\ sheets[1].unsettled_assets = base(1)
            /\ sheets[2].unsettled_assets = base(2)
            /\ sheets[3].unsettled_assets = quote(1) + quote(2)

\* Deposits scaled by 2 and 3, a borrow scaled by 3, and quote totals of both
\* markets added up in the sheet of the quote token.
C29_Witness ==
    /\ sheets_pc = "evaluated"
    /\ sheet_group.index_deposit = << 2, 1, 3 >>
    /\ sheet_accounts[1].deposits = << 2, 0, 2 >>
    /\ sheet_accounts[1].borrows = << 0, 1, 0 >>
    /\ intrinsic_balance_sheets[1][1].settled_assets = 4
    /\ intrinsic_balance_sheets[1][3].settled_assets = 6
    /\ intrinsic_balance_sheets[1][2].liabilities = 3
    /\ intrinsic_balance_sheets[1][1].unsettled_assets = 1
    /\ intrinsic_balance_sheets[1][2].unsettled_assets = 0
    /\ intrinsic_balance_sheets[1][3].unsettled_assets = 2

\* The tokens of a list of token values.
TokensOf(values) == { values[i].token : i \in 1..Len(values) }

SameName(a, b) ==
    \E spellings \in { { "eth", "Eth", "ETH" }, { "btc", "Btc", "BTC" }, { "sol", "SOL" } } :
        a \in spellings /\ b \in spellings

\* The positions of lookup_values whose token has the name or the mint looked for.
lookup_matches ==
    LET token_of(element) ==
            IF lookup_helper \in { "Token.find_by_name", "Token.find_by_mint" }
            THEN element ELSE element.token
    IN  { i \in 1..Len(lookup_values) :
            IF lookup_helper \in { "Token.find_by_name", "BasketToken.find_by_name",
                                   "TokenValue.find_by_name" }
            THEN SameName(token_of(lookup_values[i]).name, lookup_key)
            ELSE token_of(lookup_values[i]).mint = lookup_key }

\* C31: a find_by_name or find_by_mint helper of Token, BasketToken or
\* TokenValue returns the matching element when exactly one element of the
\* list matches (names compared without regard to case), and raises when none
\* matches and when more than one matches.
C31_LookupsAreStrict ==
    lookup_result # None =>
        LET result == The(lookup_result)
        IN  /\ Cardinality(lookup_matches) = 1 =>
                /\ result.kind = "returned"
                /\ \E i \in lookup_matches : result.value = lookup_values[i]
            /\ Cardinality(lookup_matches) # 1 => result.kind = "raised"

\* A name helper was asked for "eth" in a list holding ETH twice and BTC
\* once, and raised; the witness of the strict answer to several matches.
C31_Witness ==
    /\ lookup_result # None
    /\ lookup_helper = "BasketToken.find_by_name"
    /\ lookup_key = "eth"
    /\ Cardinality(lookup_matches) = 2
    /\ Len(lookup_values) = 3
    /\ The(lookup_result) = Raised("matched multiple tokens in values")

\* The declared size of the layout of the class whose parse is called.
declared_size ==
    CASE record_class = "Group" -> GROUP_sizeof
      [] record_class = "MarginAccount" -> MARGIN_ACCOUNT_sizeof
      [] record_class = "Aggregator" -> AGGREGATOR_sizeof
      [] OTHER -> undefined_sizeof

\* C32: parse of Group, MarginAccount, OpenOrders, Aggregator and TokenAccount
\* raises, and returns no record, whenever the length of the data differs from
\* the declared size of the layout, be it shorter or longer.
C32_LengthGate ==
    (record_result # None /\ account_data.length # declared_size)
        => The(record_result) = Raised("Data length does not match expected size")

\* The data handed to Group.parse is one byte longer than the 744 bytes of
\* GROUP and would decode; parse has raised.
C32_Witness ==
    /\ record_result # None
    /\ record_class = "Group"
    /\ GROUP_sizeof = 744
    /\ account_data = [ length |-> 745, decodes |-> TRUE ]
    /\ The(record_result).kind = "raised"

\* C33: for every field the codec parses, building the parsed value again
\* gives the bytes parsed: encode(decode(b)) = b for each adapter.
C33_RoundTrip ==
    (field_parsed # None /\ The(field_parsed).kind = "returned" /\ field_built # None)
        => /\ The(field_built).kind = "returned"
           /\ The(field_built).value = field_bytes

\* C34: of the entries of to_process with the highest assets - liabilities,
\* _liquidate_all attempts the one that entered the list first: every entry
\* before it in the list, where a reloaded account is appended at the end,
\* has a strictly smaller assets - liabilities.
C34_TiesByEntryOrder ==
    [][ IterationStep
        => LET highest == The(last_iteration').highest
           IN  \E i \in 1..Len(to_process) :
                  /\ to_process[i] = highest
                  /\ \A j \in 1..(i - 1) : Net(to_process[j]) < Net(highest)
                  /\ \A j \in (i + 1)..Len(to_process) :
                        Net(to_process[j]) <= Net(highest) ]_vars

\* The second account was put back on the list before the first, both with
\* the same assets - liabilities, and the second is attempted again while the
\* first waits behind it.
C34_Witness ==
    /\ pc = "liquidate_all"
    /\ last_iteration # None
    /\ The(last_iteration).highest.margin_account.address = 2
    /\ The(last_iteration).highest.margin_account.deposits = AtThreshold.deposits
    /\ \E i \in 1..Len(to_process) :
          /\ to_process[i].margin_account.address = 1
          /\ Net(to_process[i]) = Net(The(last_iteration).highest)
          /\ to_process[i].margin_account.open_orders_accounts
                = AtThreshold.open_orders_accounts

\* C35: while _liquidate_all runs, no address appears twice in to_process
\* (the addresses of a snapshot being distinct), and after an iteration the
\* list has no more entries than before it: the head is gone (unless the
\* reload found the account as the head had it, and that stands at the end),
\* and at most one entry is new, the reloaded account of the head's address.
C35_ListNeverGrows ==
    /\ [](pc = "liquidate_all"
             => \A i, j \in 1..Len(to_process) :
                   to_process[i].margin_account.address
                      = to_process[j].margin_account.address => i = j)
    /\ [][ IterationStep
           => LET highest == The(last_iteration').highest
                  new == { k \in 1..Len(to_process') : ~ Contains(to_process, to_process'[k]) }
              IN  /\ Len(to_process') <= Len(to_process)
                  /\ Len(to_process') >= Len(to_process) - 1
                  /\ ~ Contains(to_process', highest) \/ new = {}
                  /\ Cardinality(new) <= 1
                  /\ \A k \in new :
                        to_process'[k].margin_account.address
                           = highest.margin_account.address ]_vars

\* An iteration put the reloaded account of the head back: the list is as
\* long as it was, with another entry waiting.
C35_Witness ==
    /\ pc = "liquidate_all"
    /\ last_iteration # None
    /\ The(last_iteration).reload # None
    /\ Len(to_process) = 2
    /\ to_process[2] = The(The(last_iteration).reload)
    /\ to_process[2].margin_account.address = The(last_iteration).highest.margin_account.address
    /\ to_process[1].margin_account.address # to_process[2].margin_account.address

\* Whether the account the tick's list holds at an address passes, at the
\* prices of the tick, the three filters of update_prices.
WorthwhileInSnapshot(a) ==
    LET margin_account == iter_list[a]
        sheet == get_balance_sheet_totals(margin_account, The(group), prices)
    IN  /\ Ratio(margin_account)[1] * The(group).maint_coll_ratio[2]
              <= The(group).maint_coll_ratio[1] * Ratio(margin_account)[2]
        /\ Ratio(margin_account)[1] > Ratio(margin_account)[2]
        /\ assets(sheet) - sheet.liabilities > worthwhile_threshold

\* C36: a tick takes its accounts from the stored snapshot and a reload never
\* writes to the snapshot; every account of that list that is worthwhile at
\* the prices of the tick is on the liquidation list or has been passed to
\* liquidate, whatever an earlier reload found at its address, and has been
\* passed to liquidate when the tick ends.
C36_SnapshotIsEvaluatedAgain ==
    /\ [][ /\ (pc = "load_group" /\ pc' = "evaluate") => iter_list' = The(ripe_accounts)
           /\ drained' # drained => UNCHANGED ripe_accounts
           /\ (pc = "liquidate_all" /\ pc' = "idle")
                 => \A a \in 1..Len(iter_list) : WorthwhileInSnapshot(a) => a \in attempted
         ]_vars
    /\ [](pc = "liquidate_all"
            => \A a \in 1..Len(iter_list) :
                  WorthwhileInSnapshot(a)
                      => a \in attempted \/ a \in Addresses(to_process))

\* A tick passed to liquidate the account the snapshot holds at an address
\* that a reload of an earlier tick had found drained.
C36_Witness ==
    /\ pc = "liquidate_all"
    /\ iter_list = The(ripe_accounts)
    /\ last_iteration # None
    /\ LET it == The(last_iteration)
           a == it.highest.margin_account.address
       IN  /\ it.liquidate = "signature"
           /\ it.reload = None
           /\ it.highest.margin_account = iter_list[a]
           /\ a \in drained

C38_TimeoutIsNotAnError ==
    (reporting /\ wait_result = Some(Returned("timed out")))
        => /\ Len(journal) >= 3
           /\ journal[3] = "wait for confirmation"
           /\ liquidate_result = None => liquidator_pc \in { "reload", "publish" }
           /\ (liquidate_result # None /\ The(liquidate_result).kind = "returned")
                 => /\ journal = << "balances before", "inner liquidate",
                                    "wait for confirmation", "reload", "publish" >>
                    /\ ReturnedSignature(inner_result)
                    /\ published = << LiquidationEvent(The(The(inner_result).value)) >>
                    /\ liquidate_result = inner_result
           /\ (liquidate_result # None /\ The(liquidate_result).kind = "raised")
                 => /\ journal = << "balances before", "inner liquidate",
                                    "wait for confirmation" >>
                    /\ published = << >>

\* The wait timed out, and the liquidator published the event and returned
\* the signature.
C38_Witness ==
    /\ reporting
    /\ wait_result = Some(Returned("timed out"))
    /\ liquidate_result # None
    /\ ReturnedSignature(liquidate_result)
    /\ Len(published) = 1
    /\ journal[Len(journal)] = "publish"

\* Whether the margin account has resting orders on some market.
HasRestingOrders ==
    \E market \in 1..NUM_MARKETS :
        margin_orders[market] # None /\ The(margin_orders[market]) > 0

\* C39: liquidate of ForceCancelOrdersAccountLiquidator, for an account with
\* resting orders and no liquidate instruction, sends one transaction holding
\* force-cancel instructions only, and returns the signature the chain
\* answers with; it returns None exactly when there are neither resting orders
\* nor a liquidate instruction, and sends nothing then.
C39_ForceCancelOnlyTransaction ==
    (liquidator = "ForceCancelOrdersAccountLiquidator" /\ inner_result # None)
        => /\ (HasRestingOrders /\ liquidate_instruction = None)
                 => /\ Len(sent) = 1
                    /\ Len(sent[1].instructions) >= 1
                    /\ \A i \in 1..Len(sent[1].instructions) :
                          sent[1].instructions[i].kind = "ForceCancelOrders"
                    /\ sent[1].response.kind = "result"
                          => /\ ReturnedSignature(inner_result)
                             /\ The(The(inner_result).value) = sent[1].response.value
           /\ ReturnedNone(inner_result)
                 <=> (~ HasRestingOrders /\ liquidate_instruction = None)
           /\ ReturnedNone(inner_result) => sent = << >>

\* A transaction of force-cancel instructions for two markets, without a
\* liquidate instruction, was sent and its signature returned.
C39_Witness ==
    /\ liquidator = "ForceCancelOrdersAccountLiquidator"
    /\ liquidate_instruction = None
    /\ inner_result # None
    /\ ReturnedSignature(inner_result)
    /\ Len(sent) = 1
    /\ Len(sent[1].instructions) = 2
    /\ sent[1].instructions[1].market = 1
    /\ sent[1].instructions[2].market = 2

\* C40: after a wait for the fill that timed out, _execute goes on as after a
\* fill: the call is not ended by the time-out, settle is its next step, then
\* the wait for the settlement; a call that returns has taken all four steps
\* and reports "Order execution complete"; it raises only what settle or the
\* wait for the settlement raised.
C40_FillWaitOutcomeIgnored ==
    /\ [][ (fill_result = None /\ fill_result' # None
               /\ The(fill_result').kind = "returned")
              => /\ executor_pc' = "settle"
                 /\ execute_result' = None
                 /\ executor_log' = Append(executor_log, "settle") ]_vars
    /\ [](fill_result = Some(Returned("False"))
            => /\ Logged("settle")
               /\ executor_pc \in { "settle", "wait for settlement", "done" }
               /\ executor_pc = "done"
                     => \/ /\ execute_result = Some(Returned("Order execution complete"))
                           /\ executor_log = ExecuteSteps
                           /\ settlement_transaction_ids # None
                        \/ /\ The(execute_result).kind = "raised"
                           /\ The(execute_result).value \in Exceptions
                                 \cup { "str", "RPCError", "Exception", "TypeError" })

\* No fill was seen within the wait, an account was settled and the call
\* reported the order execution as complete.
C40_Witness ==
    /\ fill_result = Some(Returned("False"))
    /\ execute_result = Some(Returned("Order execution complete"))
    /\ Len(settle_calls) = 1
    /\ executor_log = ExecuteSteps

====
